---- MODULE Spec2Model ----
(***************************************************************************)
(* The retry orchestration engine of rebound: retry() with its preflight   *)
(* checks, attempt executor, circuit breaker, rate-limit tracker, sleeps   *)
(* and the cancellation/timeout composition.                               *)
(*                                                                         *)
(* Time is a millisecond clock `now` that only moves while retry() is      *)
(* suspended (operation in flight, inter-attempt sleep, rate-limit wait).  *)
(* Each action is one synchronous stretch of the code between two suspend  *)
(* points.                                                                 *)
(***************************************************************************)
EXTENDS Integers, Sequences, FiniteSets, TLC

\* ---------------------------------------------------------------- bounds
MaxAttemptsBound == 2
StartTime == 1000
RandomSteps == 2
MaxCalls == 2
MaxThreshold == 2
TickMs == 50
MaxTicks == 5
MaxFailureCount == 4
MaxNotified == 5
MaxHistory == 3

\* ------------------------------------------------------ program constants
MIN_DELAY_MS == 0
MAX_REASONABLE_DELAY_MS == 300000
RATE_LIMIT_JITTER_PERCENT == 10
EXPONENTIAL_JITTER_PERCENT == 25
DEFAULT_BASE_DELAY_MS == 1000
DEFAULT_MAX_DELAY_MS == 30000
DEFAULT_MULTIPLIER == 2

\* ------------------------------------------------- optional / JS values
\* A JavaScript number-or-absent value: t is "num", "frac", "null",
\* "undefined", "nan", "inf".  Num(n) is the integer n; Frac(n) is the non-integer
\* n + 1/2, so that v is always Math.floor of the number.
Num(n) == [t |-> "num", v |-> n]
Frac(n) == [t |-> "frac", v |-> n]
Null == [t |-> "null", v |-> 0]
Undefined == [t |-> "undefined", v |-> 0]
NaN == [t |-> "nan", v |-> 0]
Infinity == [t |-> "inf", v |-> 0]

IsFinite(x) == x.t \in {"num", "frac"}
Truthy(x) == (x.t = "num" /\ x.v # 0) \/ x.t \in {"frac", "inf"}
\* x > 0 for a number x
Positive(x) ==
    (x.t = "num" /\ x.v > 0) \/ (x.t = "frac" /\ x.v >= 0) \/ x.t = "inf"

Max(a, b) == IF a >= b THEN a ELSE b
Min(a, b) == IF a <= b THEN a ELSE b

\* FailureDomain enum
RateLimit == "rate-limit"
Transient == "transient"
Permanent == "permanent"
Unknown == "unknown"
FailureDomain == {RateLimit, Transient, Permanent, Unknown}

\* ----------------------------------------------------------- error values
\* An error object is identified by its kind and, for values coming from the
\* operation, by the number of the invocation that threw it.
\*   "thrown"  : the very object the operation threw (an Error instance)
\*   "coerced" : new Error(String(err)) built from a non-Error thrown value
ThrownError(id) == [kind |-> "thrown", id |-> id]
CoercedError(id) == [kind |-> "coerced", id |-> id]
RetryCancelledError == [kind |-> "RetryCancelledError", id |-> 0]
RetryExhaustedError == [kind |-> "RetryExhaustedError", id |-> 0]
RetryConfigurationError == [kind |-> "RetryConfigurationError", id |-> 0]
CircuitError(st) == [kind |-> "Circuit breaker is " \o st, id |-> 0]
RateLimitActiveError == [kind |-> "Rate limit active", id |-> 0]
UnknownError == [kind |-> "Unknown error", id |-> 0]
NullError == [kind |-> "null", id |-> 0]
UndefinedError == [kind |-> "undefined", id |-> 0]

\* What the operation may throw: an Error (isError) or any other value,
\* optionally carrying response metadata (status, a Retry-After header
\* whose text is a number of seconds, the three x-ratelimit-* headers) and a
\* message that may hold a transient token.  rl is <<>> or
\* <<remaining, limit, reset (epoch s)>>.
Shape(isErr, status, ra, rl, tok) ==
    [isError |-> isErr, status |-> status, retryAfterHeader |-> ra,
     rateLimitHeaders |-> rl, transientMessage |-> tok]

PlainError == Shape(TRUE, Undefined, Undefined, <<>>, FALSE)
StringThrow == Shape(FALSE, Undefined, Undefined, <<>>, FALSE)
BadRequest == Shape(TRUE, Num(400), Undefined, <<>>, FALSE)
Unavailable == Shape(TRUE, Num(503), Undefined, <<>>, FALSE)
TooMany == Shape(TRUE, Num(429), Undefined, <<>>, FALSE)
TooManyRetryAfter == Shape(TRUE, Num(429), Num(2), <<0, 10, 5>>, FALSE)
\* Retry-After: 0, -5, 400 and 1.5
TooManyRetryAfterZero == Shape(TRUE, Num(429), Num(0), <<>>, FALSE)
TooManyRetryAfterNegative == Shape(TRUE, Num(429), Num(-5), <<>>, FALSE)
TooManyRetryAfterHuge == Shape(TRUE, Num(429), Num(400), <<>>, FALSE)
TooManyRetryAfterFraction == Shape(TRUE, Num(429), Frac(1), <<>>, FALSE)

ErrorShapes == {PlainError, StringThrow, BadRequest, Unavailable, TooMany,
                TooManyRetryAfter, TooManyRetryAfterZero,
                TooManyRetryAfterNegative, TooManyRetryAfterHuge,
                TooManyRetryAfterFraction}

\* Values the operation may resolve to.
Val(n) == [t |-> "val", v |-> n]
ResolveValues == {Val(7), Null, Undefined}

\* calculateDelay was not called for the invocation
NotAsked == [t |-> "unasked", v |-> 0]

\* What a policy's calculateDelay may return.
PolicyReturns == {Null, NaN, Num(-1), Num(50), Frac(50), Num(400000)}

\* ------------------------------------------------------------ pure helpers
\* parseRetryAfter on a header whose text is a number: parseInt reads the
\* digits before the decimal point, which truncates towards zero.
ParseRetryAfter(header) ==
    IF header.t = "frac"
    THEN Num(IF header.v >= 0 THEN header.v ELSE header.v + 1)
    ELSE header

\* extractResponseMetadata applied to the error executeAttempt holds: the
\* thrown Error itself, or the Error coerced from a non-Error value (which
\* carries no response).  The x-ratelimit-* values are held as the integers
\* parseInt reads from them.
ExtractResponseMetadata(shape) ==
    IF ~shape.isError
          \/ (shape.status = Undefined /\ shape.retryAfterHeader = Undefined
              /\ shape.rateLimitHeaders = <<>>)
    THEN [present |-> FALSE, status |-> Undefined, hasHeaders |-> FALSE,
          retryAfter |-> Undefined, rateLimitHeaders |-> <<>>]
    ELSE [present |-> TRUE, status |-> shape.status,
          hasHeaders |-> (shape.retryAfterHeader # Undefined
                          \/ shape.rateLimitHeaders # <<>>),
          retryAfter |-> IF shape.retryAfterHeader # Undefined
                         THEN ParseRetryAfter(shape.retryAfterHeader)
                         ELSE Undefined,
          rateLimitHeaders |-> shape.rateLimitHeaders]

\* HttpFailureClassifier.classify
Classify(shape, meta) ==
    IF meta.present /\ meta.status = Num(429) THEN RateLimit
    ELSE IF meta.present /\ Truthy(meta.retryAfter) THEN RateLimit
    ELSE IF meta.present /\ Truthy(meta.status) /\ meta.status.v >= 500
         THEN Transient
    ELSE IF meta.present /\ Truthy(meta.status) /\ meta.status.v >= 400
            /\ meta.status.v < 500
         THEN Permanent
    ELSE IF shape.transientMessage THEN Transient
    ELSE Unknown

ValidateAndClampDelayUnclamped(delay) ==
    IF delay = Null THEN Null
    ELSE IF ~IsFinite(delay) \/ delay.v < MIN_DELAY_MS THEN Num(MIN_DELAY_MS)
    ELSE delay

\* validateAndClampDelay: delay.v is Math.floor(delay), and for the integer
\* MIN_DELAY_MS, delay < MIN_DELAY_MS exactly when its floor is
ValidateAndClampDelay(delay) ==
    IF delay = Null THEN Null
    ELSE IF ~IsFinite(delay) \/ delay.v < MIN_DELAY_MS THEN Num(MIN_DELAY_MS)
    ELSE Num(Min(delay.v, MAX_REASONABLE_DELAY_MS))

\* Math.floor(delay + delay * RATE_LIMIT_JITTER_FACTOR * Math.random()) with
\* Math.random() = k / RandomSteps, 0 <= k < RandomSteps
RateLimitJitter(delay, k) ==
    delay + ((delay * RATE_LIMIT_JITTER_PERCENT * k) \div (100 * RandomSteps))

ComputeDelayInvalidAsZero(domain, meta, policyReturn, k) ==
    LET validated == IF policyReturn # Null
                        /\ (~IsFinite(policyReturn) \/ policyReturn.v < 0)
                     THEN Num(0) ELSE policyReturn
        overridden == IF domain = RateLimit /\ meta.present
                         /\ Truthy(meta.retryAfter)
                      THEN Num(RateLimitJitter(meta.retryAfter.v * 1000, k))
                      ELSE validated
    IN  ValidateAndClampDelay(overridden)

\* The delay executeAttempt computes for a non-Permanent failure.
ComputeDelay(domain, meta, policyReturn, k) ==
    LET validated == IF policyReturn # Null
                        /\ (~IsFinite(policyReturn) \/ policyReturn.v < 0)
                     THEN Null ELSE policyReturn
        overridden == IF domain = RateLimit /\ meta.present
                         /\ Truthy(meta.retryAfter)
                      THEN Num(RateLimitJitter(meta.retryAfter.v * 1000, k))
                      ELSE validated
    IN  ValidateAndClampDelay(overridden)

\* createRetryAttemptSuccess / createRetryAttemptFailure
CreateRetryAttemptSuccess(att, result, domain, delay, t) ==
    [attempt |-> att, result |-> result, error |-> NullError,
     failureDomain |-> domain, delay |-> delay, timestamp |-> t]

CreateRetryAttemptFailure(att, error, domain, delay, t) ==
    [attempt |-> att, result |-> Null, error |-> error,
     failureDomain |-> domain, delay |-> delay, timestamp |-> t]

RECURSIVE CountDomainAll(_, _)
CountDomainAll(as, d) ==
    IF as = <<>> THEN 0
    ELSE (IF Head(as).failureDomain = d THEN 1 ELSE 0)
         + CountDomainAll(Tail(as), d)

\* computeMetrics: totalRetries, successRate and the per-domain counts.
RECURSIVE CountDomain(_, _)
CountDomain(as, d) ==
    IF as = <<>> THEN 0
    ELSE (IF Head(as).error # NullError /\ Head(as).failureDomain = d
          THEN 1 ELSE 0) + CountDomain(Tail(as), d)

ComputeMetrics(as, wasSuccessful) ==
    [totalRetries |-> Max(0, Len(as) - 1),
     successRate |-> IF wasSuccessful THEN 1 ELSE 0,
     failureDomainDistribution |-> [d \in FailureDomain |-> CountDomain(as, d)]]

\* ---------------------------------------------------------- CircuitBreaker
\* notified is the sequence of states handed to onStateChange.
NoBreaker ==
    [present |-> FALSE, failureThreshold |-> 0, successThreshold |-> 0,
     timeout |-> 0, state |-> "closed", failureCount |-> 0,
     successCount |-> 0, lastFailureTime |-> Null, notified |-> <<>>]

NewCircuitBreaker(ft, st, to) ==
    [NoBreaker EXCEPT !.present = TRUE, !.failureThreshold = ft,
                      !.successThreshold = st, !.timeout = to]

TransitionTo(b, newState) ==
    IF b.state # newState
    THEN [b EXCEPT !.state = newState, !.notified = Append(@, newState)]
    ELSE b

CanExecuteAlwaysAdmits(b, t) == [ok |-> TRUE, b |-> b]

CanExecuteLate(b, t) ==
    IF b.state = "open"
    THEN IF Truthy(b.lastFailureTime) /\ t - b.lastFailureTime.v > b.timeout
         THEN [ok |-> TRUE, b |-> TransitionTo(b, "half-open")]
         ELSE [ok |-> FALSE, b |-> b]
    ELSE [ok |-> TRUE, b |-> b]

\* canExecute: the admission answer and the breaker afterwards
CanExecute(b, t) ==
    IF b.state = "closed" THEN [ok |-> TRUE, b |-> b]
    ELSE IF b.state = "open"
    THEN IF Truthy(b.lastFailureTime) /\ t - b.lastFailureTime.v >= b.timeout
         THEN [ok |-> TRUE, b |-> TransitionTo(b, "half-open")]
         ELSE [ok |-> FALSE, b |-> b]
    ELSE [ok |-> TRUE, b |-> b]

RecordSuccessKeepsCount(b) ==
    IF b.state = "half-open"
    THEN LET b1 == [b EXCEPT !.successCount = @ + 1]
         IN  IF b1.successCount >= b1.successThreshold
             THEN TransitionTo(b1, "closed")
             ELSE b1
    ELSE IF b.state = "closed" THEN [b EXCEPT !.failureCount = 0]
    ELSE b

RecordSuccess(b) ==
    IF b.state = "half-open"
    THEN LET b1 == [b EXCEPT !.successCount = @ + 1]
         IN  IF b1.successCount >= b1.successThreshold
             THEN [TransitionTo(b1, "closed") EXCEPT !.successCount = 0]
             ELSE b1
    ELSE IF b.state = "closed" THEN [b EXCEPT !.failureCount = 0]
    ELSE b

RecordFailureKeepsSuccesses(b, t) ==
    LET b1 == [b EXCEPT !.lastFailureTime = Num(t), !.failureCount = @ + 1]
    IN  IF b1.state = "half-open" \/ b1.failureCount >= b1.failureThreshold
        THEN TransitionTo(b1, "open")
        ELSE b1

RecordFailureKeepsWindow(b, t) ==
    LET b1 == [b EXCEPT !.lastFailureTime =
                            IF b.state = "open" THEN @ ELSE Num(t),
                        !.failureCount = @ + 1]
    IN  IF b1.state = "half-open"
        THEN [TransitionTo(b1, "open") EXCEPT !.successCount = 0]
        ELSE IF b1.state = "closed" /\ b1.failureCount >= b1.failureThreshold
        THEN TransitionTo(b1, "open")
        ELSE b1

RecordFailure(b, t) ==
    LET b1 == [b EXCEPT !.lastFailureTime = Num(t), !.failureCount = @ + 1]
    IN  IF b1.state = "half-open"
        THEN [TransitionTo(b1, "open") EXCEPT !.successCount = 0]
        ELSE IF b1.state = "closed" /\ b1.failureCount >= b1.failureThreshold
        THEN TransitionTo(b1, "open")
        ELSE b1

ResetSilent(b) ==
    [TransitionTo(b, "closed") EXCEPT !.failureCount = 0, !.successCount = 0,
                                      !.lastFailureTime = Null]

\* reset(): closed, everything cleared, and onStateChange('closed') called
\* whatever the state was
Reset(b) ==
    [b EXCEPT !.state = "closed", !.failureCount = 0, !.successCount = 0,
              !.lastFailureTime = Null, !.notified = Append(@, "closed")]

\* -------------------------------------------------------- RateLimitTracker
NoTracker == [present |-> FALSE, remaining |-> 0, resetAt |-> 0, limit |-> 0]

NewRateLimitTracker(remaining, resetAt, limit) ==
    [present |-> TRUE, remaining |-> remaining, resetAt |-> resetAt,
     limit |-> limit]

IsRateLimitedStrict(tr, t) == tr.present /\ tr.remaining < 0 /\ t < tr.resetAt

IsRateLimited(tr, t) == tr.present /\ tr.remaining <= 0 /\ t < tr.resetAt

GetTimeUntilReset(tr, t) == Max(0, tr.resetAt - t)

Decrement(tr) ==
    IF ~tr.present THEN tr ELSE [tr EXCEPT !.remaining = Max(0, @ - 1)]

\* updateFromHeaders without an endpoint: the state is replaced only when
\* all three x-ratelimit-* headers are there.
UpdateFromHeaders(tr, rl) ==
    IF tr.present /\ rl # <<>>
    THEN [tr EXCEPT !.remaining = rl[1], !.limit = rl[2],
                    !.resetAt = rl[3] * 1000]
    ELSE tr

\* ------------------------------------------------------------------ state
VARIABLES
    cfg,            \* maxAttempts, hasSignal, timeout of this retry() call
    pc,             \* "idle", "rejected", "loop", "invoking", "sleeping",
                    \* "rlwait", "done"
    attempt,        \* the for-loop counter
    attempts,       \* the attempt history
    events,         \* what onEvent has been handed, in order
    now,            \* Date.now()
    signalAborted,  \* params.signal.aborted
    timeoutAborted, \* timeoutController.signal.aborted
    timeoutTimer,   \* deadline of the overall-timeout timer, Null when unarmed
    sleepTimer,     \* deadline of the pending sleep() timer, Null when none
    breaker,        \* the CircuitBreaker (NoBreaker when not configured)
    tracker,        \* the RateLimitTracker (NoTracker when not configured)
    outcome,        \* how retry() settled
    calls,          \* number of invocations of fn so far
    history,        \* per invocation: how fn settled (see Settled)
    waits,          \* number of preflight rate-limit waits so far
    declined,       \* the policy has returned null or an invalid delay
    policyReturned, \* what calculateDelay returned in the step just taken
    endReason,      \* which exit path ended the run
    options,        \* the caller's circuitBreaker and rateLimitState params
    runs,           \* retry() calls the caller has completed before this one
    priorFailed,    \* how many of them in a row ended with fn only failing
    op,             \* the last CircuitBreaker method called directly
    streak,         \* recordFailure calls in a row while closed
    hoSuccesses,    \* recordSuccess calls since half-open was entered
    listeners,      \* abort listeners the run has attached and not removed
    probe           \* the last pure function called directly, with its result

vars == <<cfg, pc, attempt, attempts, events, now, signalAborted,
          timeoutAborted, timeoutTimer, sleepTimer, breaker, tracker,
          outcome, calls, history, waits, declined, policyReturned,
          endReason, options,
          runs, priorFailed, op, streak, hoSuccesses, listeners, probe>>

collaborators == <<breaker, tracker>>
signals == <<signalAborted, timeoutAborted>>
ghosts == <<calls, history, waits, declined>>
caller == <<runs, priorFailed>>
harness == <<op, streak, hoSuccesses, probe>>

\* The options of one retry() call.  maxAttemptsParam is the number handed
\* in as maxAttempts and maxAttempts is its Math.floor, which is the number
\* itself for every value validation accepts.
Config(maxAttemptsParam, hasSignal, timeout) ==
    [maxAttempts |-> maxAttemptsParam.v, maxAttemptsParam |-> maxAttemptsParam,
     hasSignal |-> hasSignal, timeout |-> timeout]

Configs ==
    {Config(Num(n), s, t) :
        n \in 1..MaxAttemptsBound, s \in BOOLEAN, t \in {Undefined, Num(30)}}

\* maxAttempts 0, 1.5 and NaN; timeout 0, -5, NaN and Infinity
InvalidConfigs ==
    {Config(n, FALSE, t) : n \in {Num(0), Frac(1), NaN},
                           t \in {Undefined, Num(30)}}
    \cup {Config(Num(1), s, t) : s \in BOOLEAN,
                                 t \in {Num(0), Num(-5), NaN, Infinity}}

ValidateRetryOptionsLax(c) ==
    /\ IsFinite(c.maxAttemptsParam) /\ c.maxAttemptsParam.v >= 1
    /\ c.timeout # Undefined => IsFinite(c.timeout) /\ Positive(c.timeout)

\* validateRetryOptions: TRUE when it returns, FALSE when it throws
ValidateRetryOptions(c) ==
    /\ c.maxAttemptsParam.t = "num" /\ c.maxAttemptsParam.v >= 1
    /\ c.timeout # Undefined => IsFinite(c.timeout) /\ Positive(c.timeout)

Breakers == {NoBreaker, NewCircuitBreaker(1, 1, 100)}

Trackers == {NoTracker, NewRateLimitTracker(0, StartTime + 20, 10),
             NewRateLimitTracker(1, StartTime + 20, 10),
             NewRateLimitTracker(0, StartTime + 40, 10),
             NewRateLimitTracker(0, StartTime + MAX_REASONABLE_DELAY_MS + 1000,
                                 10)}

Pending ==
    [status |-> "pending", value |-> Undefined, error |-> NullError,
     exAttempts |-> 0, exLastError |-> UndefinedError,
     exDomain |-> "undefined", metrics |-> ComputeMetrics(<<>>, FALSE)]

\* buildSuccessResult
Returned(v, as) ==
    [Pending EXCEPT !.status = "returned", !.value = v,
                    !.metrics = ComputeMetrics(as, TRUE)]

Threw(e) == [Pending EXCEPT !.status = "threw", !.error = e]

\* new RetryExhaustedError(attempts, lastError, failureDomain)
ThrewExhausted(n, lastError, domain) ==
    [Threw(RetryExhaustedError) EXCEPT !.exAttempts = n,
                                       !.exLastError = lastError,
                                       !.exDomain = domain]

\* createRetryEvent
Event(type, rec, total, est, last) ==
    [type |-> type, attempt |-> rec, totalAttempts |-> total,
     estimatedRemainingMs |-> est, isLastAttempt |-> last]

\* A direct call of a CircuitBreaker method: its name, what it returned,
\* the state it found and how many onStateChange calls had been made.
Call(name, ret, b) ==
    [name |-> name, ret |-> ret, from |-> b.state, seen |-> Len(b.notified)]

NoCall == Call("none", FALSE, NoBreaker)

\* compose: combineSignals' onAbort is attached to the external and the
\* timeout signal; sleep: a sleep()'s onAbort is attached to the combined
\* signal
NoListeners == [compose |-> FALSE, sleep |-> FALSE]

\* cleanup(timeoutId, cleanupSignals), as far as listeners go
Cleanup(l) == [l EXCEPT !.compose = FALSE]

NoProbe == [name |-> "none"]

\* the params object the caller hands to retry(); shared tells whether the
\* tracker's state is still the caller's rateLimitState object
Options(b, tr) ==
    [circuitBreaker |-> b, rateLimitState |-> tr, shared |-> tr.present]

Init ==
    /\ cfg \in Configs \cup InvalidConfigs
    /\ breaker \in Breakers
    /\ tracker \in Trackers
    /\ options = Options(breaker, tracker)
    /\ runs = 0
    /\ priorFailed = 0
    /\ op = NoCall
    /\ streak = 0
    /\ hoSuccesses = 0
    /\ listeners = NoListeners
    /\ probe = NoProbe
    /\ signalAborted \in (IF cfg.hasSignal THEN BOOLEAN ELSE {FALSE})
    /\ pc = "idle"
    /\ attempt = 0
    /\ attempts = <<>>
    /\ events = <<>>
    /\ now = StartTime
    /\ timeoutAborted = FALSE
    /\ timeoutTimer = Null
    /\ sleepTimer = Null
    /\ outcome = Pending
    /\ calls = 0
    /\ history = <<>>
    /\ waits = 0
    /\ declined = FALSE
    /\ policyReturned = NotAsked
    /\ endReason = "none"

\* combinedSignal.aborted while the run's listeners are attached
CombinedAborted == (cfg.hasSignal /\ signalAborted) \/ timeoutAborted

Suspended == pc \in {"invoking", "sleeping", "rlwait"}

\* the for-loop header of retry()
LoopCondition(att) == att <= cfg.maxAttempts
NextAttemptStuck(att) == att
NextAttempt(att) == att + 1
IsLastAttempt(att) == att = cfg.maxAttempts

\* a combined signal exists: combineSignals got at least one signal
HasCombinedSignal == cfg.hasSignal \/ cfg.timeout # Undefined

\* retry.ts 35 throws: the promise retry() returned is rejected before
\* anything else is set up
RejectConfig ==
    /\ pc = "idle"
    /\ ~ValidateRetryOptions(cfg)
    /\ pc' = "rejected"
    /\ outcome' = Threw(RetryConfigurationError)
    /\ endReason' = "config"
    /\ policyReturned' = NotAsked
    /\ UNCHANGED <<options, caller, harness, listeners>>
    /\ UNCHANGED <<cfg, attempt, attempts, events, now, signals, timeoutTimer,
                   sleepTimer, collaborators, ghosts>>

\* retry() validates, arms the overall timeout, composes the signals and
\* enters the loop.  combineSignals attaches its listeners only when it got
\* both signals and the external one is not aborted yet.
Start ==
    /\ pc = "idle"
    /\ ValidateRetryOptions(cfg)
    /\ pc' = "loop"
    /\ attempt' = 1
    /\ timeoutTimer' = IF cfg.timeout # Undefined
                       THEN Num(now + cfg.timeout.v) ELSE Null
    /\ listeners' = [listeners EXCEPT
                        !.compose = cfg.hasSignal /\ cfg.timeout # Undefined
                                    /\ ~signalAborted]
    /\ policyReturned' = NotAsked
    /\ UNCHANGED <<options, caller, harness>>
    /\ UNCHANGED <<cfg, attempts, events, now, signals, sleepTimer,
                   collaborators, outcome, ghosts, endReason>>

PerformPreChecksBreakerFirst(att, aborted, b, tr, t) ==
    LET none == CreateRetryAttemptFailure(att, NullError, Unknown, 0, t)
        ce == CanExecute(b, t)
    IN  IF b.present /\ ~ce.ok
        THEN [shouldProceed |-> FALSE, hasRecord |-> TRUE,
              attemptRecord |-> CreateRetryAttemptFailure(
                                  att, CircuitError(ce.b.state), Transient,
                                  0, t),
              delay |-> Undefined, breaker |-> ce.b]
        ELSE IF aborted
        THEN [shouldProceed |-> FALSE, hasRecord |-> TRUE,
              attemptRecord |-> CreateRetryAttemptFailure(
                                  att, RetryCancelledError, Unknown, 0, t),
              delay |-> Undefined,
              breaker |-> IF b.present THEN ce.b ELSE b]
        ELSE LET b2 == IF b.present THEN ce.b ELSE b
             IN  IF IsRateLimited(tr, t)
                 THEN [shouldProceed |-> TRUE, hasRecord |-> TRUE,
                       attemptRecord |-> CreateRetryAttemptFailure(
                                           att, RateLimitActiveError,
                                           RateLimit,
                                           GetTimeUntilReset(tr, t), t),
                       delay |-> Num(GetTimeUntilReset(tr, t)),
                       breaker |-> b2]
                 ELSE [shouldProceed |-> TRUE, hasRecord |-> FALSE,
                       attemptRecord |-> none, delay |-> Undefined,
                       breaker |-> b2]

\* performPreChecks: its result and the breaker after canExecute
PerformPreChecks(att, aborted, b, tr, t) ==
    LET none == CreateRetryAttemptFailure(att, NullError, Unknown, 0, t)
        ce == CanExecute(b, t)
    IN  IF aborted
        THEN [shouldProceed |-> FALSE, hasRecord |-> TRUE,
              attemptRecord |-> CreateRetryAttemptFailure(
                                  att, RetryCancelledError, Unknown, 0, t),
              delay |-> Undefined, breaker |-> b]
        ELSE IF b.present /\ ~ce.ok
        THEN [shouldProceed |-> FALSE, hasRecord |-> TRUE,
              attemptRecord |-> CreateRetryAttemptFailure(
                                  att, CircuitError(ce.b.state), Transient,
                                  0, t),
              delay |-> Undefined, breaker |-> ce.b]
        ELSE LET b2 == IF b.present THEN ce.b ELSE b
             IN  IF IsRateLimited(tr, t)
                 THEN [shouldProceed |-> TRUE, hasRecord |-> TRUE,
                       attemptRecord |-> CreateRetryAttemptFailure(
                                           att, RateLimitActiveError,
                                           RateLimit,
                                           GetTimeUntilReset(tr, t), t),
                       delay |-> Num(GetTimeUntilReset(tr, t)),
                       breaker |-> b2]
                 ELSE [shouldProceed |-> TRUE, hasRecord |-> FALSE,
                       attemptRecord |-> none, delay |-> Undefined,
                       breaker |-> b2]

PreCheck == PerformPreChecks(attempt, CombinedAborted, breaker, tracker, now)

LoopExitSpins ==
    /\ pc = "loop"
    /\ ~LoopCondition(attempt)
    /\ UNCHANGED vars

\* the loop ran out of iterations: retry.ts 229-231
LoopExit ==
    /\ pc = "loop"
    /\ ~LoopCondition(attempt)
    /\ pc' = "done"
    /\ timeoutTimer' = Null
    /\ outcome' = ThrewExhausted(cfg.maxAttempts, UndefinedError, "undefined")
    /\ endReason' = "fallthrough"
    /\ listeners' = Cleanup(listeners)
    /\ policyReturned' = NotAsked
    /\ UNCHANGED <<options, caller, harness>>
    /\ UNCHANGED <<cfg, attempt, attempts, events, now, signals, sleepTimer,
                   collaborators, ghosts>>

\* preflight refuses (cancellation or breaker): retry.ts 67-86
PreCheckFails ==
    /\ pc = "loop"
    /\ LoopCondition(attempt)
    /\ ~PreCheck.shouldProceed /\ PreCheck.hasRecord
    /\ LET rec == PreCheck.attemptRecord
           as1 == Append(attempts, rec)
       IN  /\ attempts' = as1
           /\ events' = Append(events,
                  Event(IF rec.error # NullError THEN "failure"
                        ELSE "cancelled",
                        rec, Len(as1), Undefined, IsLastAttempt(attempt)))
           /\ outcome' = Threw(IF rec.error # NullError THEN rec.error
                               ELSE RetryCancelledError)
           /\ endReason' = IF CombinedAborted THEN "cancel-preflight"
                           ELSE "breaker"
    /\ breaker' = PreCheck.breaker
    /\ timeoutTimer' = Null
    /\ listeners' = Cleanup(listeners)
    /\ pc' = "done"
    /\ policyReturned' = NotAsked
    /\ UNCHANGED <<options, caller, harness>>
    /\ UNCHANGED <<cfg, attempt, now, signals, sleepTimer, tracker, ghosts>>

HasRateLimitWait(pre) ==
    Truthy(pre.delay) /\ pre.delay.v > 0 /\ pre.hasRecord

\* preflight finds the tracker exhausted: retry.ts 88-105 up to the sleep
RateLimitWait ==
    /\ pc = "loop"
    /\ LoopCondition(attempt)
    /\ PreCheck.shouldProceed
    /\ HasRateLimitWait(PreCheck)
    /\ LET rec == PreCheck.attemptRecord
           as1 == Append(attempts, rec)
       IN  /\ attempts' = as1
           /\ events' = Append(events,
                  Event("attempt", rec, Len(as1), PreCheck.delay,
                        IsLastAttempt(attempt)))
    /\ breaker' = PreCheck.breaker
    /\ sleepTimer' = Num(now + PreCheck.delay.v)
    /\ listeners' = [listeners EXCEPT !.sleep = HasCombinedSignal]
    /\ waits' = waits + 1
    /\ pc' = "rlwait"
    /\ policyReturned' = NotAsked
    /\ UNCHANGED <<options, caller, harness>>
    /\ UNCHANGED <<cfg, attempt, now, signals, timeoutTimer, tracker,
                   outcome, calls, history, declined, endReason>>

\* preflight admits: executeAttempt calls fn
Invoke ==
    /\ pc = "loop"
    /\ LoopCondition(attempt)
    /\ PreCheck.shouldProceed
    /\ ~HasRateLimitWait(PreCheck)
    /\ breaker' = PreCheck.breaker
    /\ calls' = calls + 1
    /\ pc' = "invoking"
    /\ policyReturned' = NotAsked
    /\ UNCHANGED <<options, caller, harness, listeners>>
    /\ UNCHANGED <<cfg, attempt, attempts, events, now, signals,
                   timeoutTimer, sleepTimer, tracker, outcome, history,
                   waits, declined, endReason>>

\* history entry: how one invocation of fn settled
\* (result is "threw", "resolved" or "resolved-undefined"; delay is the delay
\* executeAttempt returned; value is what fn resolved to; retryAfter is the
\* Retry-After value of the extracted metadata)
Settled(result, domain, isErr, delay, value, retryAfter) ==
    [result |-> result, domain |-> domain, isError |-> isErr,
     delay |-> delay, value |-> value, retryAfter |-> retryAfter]

\* executeAttempt, success branch (part_004 46-70)
ExecuteAttemptSuccess(att, v, t) ==
    [success |-> TRUE, result |-> v, error |-> UndefinedError,
     failureDomain |-> Unknown, delay |-> Null,
     attemptRecord |-> CreateRetryAttemptSuccess(att, v, Unknown, 0, t)]

\* executeAttempt, catch branch (part_004 71-142): id numbers the invocation
ExecuteAttemptFailure(att, shape, policyReturn, k, id, t) ==
    LET error == IF shape.isError THEN ThrownError(id) ELSE CoercedError(id)
        meta == ExtractResponseMetadata(shape)
        domain == Classify(shape, meta)
        delay == ComputeDelay(domain, meta, policyReturn, k)
    IN  IF domain = Permanent
        THEN [success |-> FALSE, result |-> Undefined, error |-> error,
              failureDomain |-> domain, delay |-> Null,
              attemptRecord |->
                  CreateRetryAttemptFailure(att, error, domain, 0, t)]
        ELSE [success |-> FALSE, result |-> Undefined, error |-> error,
              failureDomain |-> domain, delay |-> delay,
              attemptRecord |->
                  CreateRetryAttemptFailure(
                      att, error, domain,
                      IF delay = Null THEN 0 ELSE delay.v, t)]

FailFastInverted(domain, delay) == domain # Permanent /\ delay = Null

FailFastPermanentOnly(domain, delay) == domain = Permanent

\* retry.ts 155-159: fail immediately
FailFast(domain, delay) == domain = Permanent \/ delay = Null

\* setTimeout's delay argument
TimerMs(d) == IF IsFinite(d) /\ d.v > 0 THEN d.v ELSE 0

\* the record retry() appends when a sleep is cancelled: retry.ts 204-211
CancelledAttempt(att, t) ==
    CreateRetryAttemptFailure(att, RetryCancelledError, Unknown, 0, t)

AfterAttemptCancelFirst(res) ==
    LET rec == res.attemptRecord
        as1 == Append(attempts, rec)
        isLast == IsLastAttempt(attempt)
        est == IF res.delay # Null /\ ~isLast THEN res.delay ELSE Undefined
        evAttempt == Event("attempt", rec, Len(as1), est, isLast)
        evFailure == Event("failure", rec, Len(as1), Undefined, TRUE)
    IN  IF res.success /\ res.result # Undefined
        THEN /\ attempts' = as1
             /\ events' = Append(events,
                    Event("success", rec, Len(as1), Undefined, TRUE))
             /\ outcome' = Returned(res.result, as1)
             /\ endReason' = "success"
             /\ timeoutTimer' = Null
             /\ listeners' = Cleanup(listeners)
             /\ pc' = "done"
             /\ UNCHANGED sleepTimer
        ELSE IF FailFast(res.failureDomain, res.delay)
        THEN /\ attempts' = as1
             /\ events' = events \o <<evAttempt, evFailure>>
             /\ outcome' = Threw(IF res.error # UndefinedError THEN res.error
                                 ELSE UnknownError)
             /\ endReason' = IF res.success THEN "undefined-result"
                             ELSE IF res.failureDomain = Permanent
                             THEN "permanent" ELSE "policy-stop"
             /\ timeoutTimer' = Null
             /\ listeners' = Cleanup(listeners)
             /\ pc' = "done"
             /\ UNCHANGED sleepTimer
        ELSE IF CombinedAborted
        THEN \* sleep() rejects at once: signal already aborted
             LET c == CancelledAttempt(attempt, now)
                 as2 == Append(as1, c)
             IN  /\ attempts' = as2
                 /\ events' = events \o
                        <<evAttempt,
                          Event("cancelled", c, Len(as2), Undefined, isLast)>>
                 /\ outcome' = Threw(RetryCancelledError)
                 /\ endReason' = "cancel-sleep-start"
                 /\ timeoutTimer' = Null
                 /\ listeners' = Cleanup(listeners)
                 /\ pc' = "done"
                 /\ UNCHANGED sleepTimer
        ELSE IF isLast
        THEN /\ attempts' = as1
             /\ events' = events \o <<evAttempt, evFailure>>
             /\ outcome' = ThrewExhausted(cfg.maxAttempts, res.error,
                                          res.failureDomain)
             /\ endReason' = "exhausted"
             /\ timeoutTimer' = Null
             /\ listeners' = Cleanup(listeners)
             /\ pc' = "done"
             /\ UNCHANGED sleepTimer
        ELSE /\ attempts' = as1
             /\ events' = Append(events, evAttempt)
             /\ sleepTimer' = Num(now + TimerMs(res.delay))
             /\ listeners' = [listeners EXCEPT !.sleep = HasCombinedSignal]
             /\ pc' = "sleeping"
             /\ UNCHANGED <<outcome, endReason, timeoutTimer>>

\* retry.ts 117-226: what retry() does with the result of executeAttempt
AfterAttempt(res) ==
    LET rec == res.attemptRecord
        as1 == Append(attempts, rec)
        isLast == IsLastAttempt(attempt)
        est == IF res.delay # Null /\ ~isLast THEN res.delay ELSE Undefined
        evAttempt == Event("attempt", rec, Len(as1), est, isLast)
        evFailure == Event("failure", rec, Len(as1), Undefined, TRUE)
    IN  IF res.success /\ res.result # Undefined
        THEN /\ attempts' = as1
             /\ events' = Append(events,
                    Event("success", rec, Len(as1), Undefined, TRUE))
             /\ outcome' = Returned(res.result, as1)
             /\ endReason' = "success"
             /\ timeoutTimer' = Null
             /\ listeners' = Cleanup(listeners)
             /\ pc' = "done"
             /\ UNCHANGED sleepTimer
        ELSE IF FailFast(res.failureDomain, res.delay)
        THEN /\ attempts' = as1
             /\ events' = events \o <<evAttempt, evFailure>>
             /\ outcome' = Threw(IF res.error # UndefinedError THEN res.error
                                 ELSE UnknownError)
             /\ endReason' = IF res.success THEN "undefined-result"
                             ELSE IF res.failureDomain = Permanent
                             THEN "permanent" ELSE "policy-stop"
             /\ timeoutTimer' = Null
             /\ listeners' = Cleanup(listeners)
             /\ pc' = "done"
             /\ UNCHANGED sleepTimer
        ELSE IF isLast
        THEN /\ attempts' = as1
             /\ events' = events \o <<evAttempt, evFailure>>
             /\ outcome' = ThrewExhausted(cfg.maxAttempts, res.error,
                                          res.failureDomain)
             /\ endReason' = "exhausted"
             /\ timeoutTimer' = Null
             /\ listeners' = Cleanup(listeners)
             /\ pc' = "done"
             /\ UNCHANGED sleepTimer
        ELSE IF CombinedAborted
        THEN \* sleep() rejects at once: signal already aborted
             LET c == CancelledAttempt(attempt, now)
                 as2 == Append(as1, c)
             IN  /\ attempts' = as2
                 /\ events' = events \o
                        <<evAttempt,
                          Event("cancelled", c, Len(as2), Undefined, isLast)>>
                 /\ outcome' = Threw(RetryCancelledError)
                 /\ endReason' = "cancel-sleep-start"
                 /\ timeoutTimer' = Null
                 /\ listeners' = Cleanup(listeners)
                 /\ pc' = "done"
                 /\ UNCHANGED sleepTimer
        ELSE /\ attempts' = as1
             /\ events' = Append(events, evAttempt)
             /\ sleepTimer' = Num(now + TimerMs(res.delay))
             /\ listeners' = [listeners EXCEPT !.sleep = HasCombinedSignal]
             /\ pc' = "sleeping"
             /\ UNCHANGED <<outcome, endReason, timeoutTimer>>

\* fn resolves with v
FnResolves ==
    /\ pc = "invoking"
    /\ \E v \in ResolveValues :
          /\ history' = Append(history,
                 Settled(IF v = Undefined THEN "resolved-undefined"
                         ELSE "resolved", "none", FALSE, Null, v,
                         Undefined))
          /\ breaker' = IF breaker.present THEN RecordSuccess(breaker)
                        ELSE breaker
          /\ tracker' = Decrement(tracker)
          /\ options' = IF options.shared
                        THEN [options EXCEPT
                                 !.rateLimitState = Decrement(tracker)]
                        ELSE options
          /\ UNCHANGED <<caller, harness>>
          /\ policyReturned' = NotAsked
          /\ UNCHANGED <<cfg, attempt, now, signals, calls, waits, declined>>
          /\ AfterAttempt(ExecuteAttemptSuccess(attempt, v, now))

\* fn throws a value of the given shape; the policy answers policyReturn and
\* Math.random() answers k / RandomSteps
FnRejects ==
    /\ pc = "invoking"
    /\ \E shape \in ErrorShapes, policyReturn \in PolicyReturns,
          k \in 0..(RandomSteps - 1) :
          LET res == ExecuteAttemptFailure(attempt, shape, policyReturn, k,
                                           calls, now)
              meta == ExtractResponseMetadata(shape)
          IN  /\ history' = Append(history,
                     Settled("threw", res.failureDomain, shape.isError,
                             res.delay, Undefined, meta.retryAfter))
              /\ policyReturned' = IF res.failureDomain = Permanent
                                   THEN NotAsked ELSE policyReturn
              /\ declined' = (declined
                              \/ (res.failureDomain # Permanent
                                  /\ (~IsFinite(policyReturn)
                                      \/ policyReturn.v < 0)))
              /\ breaker' = IF breaker.present
                            THEN RecordFailure(breaker, now) ELSE breaker
              /\ tracker' = IF res.failureDomain = RateLimit
                               /\ meta.present /\ meta.hasHeaders
                            THEN UpdateFromHeaders(tracker,
                                                   meta.rateLimitHeaders)
                            ELSE tracker
              /\ options' = IF res.failureDomain = RateLimit
                               /\ meta.present /\ meta.hasHeaders
                               /\ tracker.present
                               /\ meta.rateLimitHeaders # <<>>
                            THEN [options EXCEPT !.shared = FALSE]
                            ELSE options
              /\ UNCHANGED <<caller, harness>>
              /\ UNCHANGED <<cfg, attempt, now, signals, calls, waits>>
              /\ AfterAttempt(res)

OnAbortUnheard ==
    UNCHANGED <<attempts, events, outcome, endReason, sleepTimer,
                timeoutTimer, listeners, pc>>

OnAbortWaitUnheard ==
    IF pc = "sleeping"
    THEN LET c == CancelledAttempt(attempt, now)
             as2 == Append(attempts, c)
         IN  /\ attempts' = as2
             /\ events' = Append(events,
                    Event("cancelled", c, Len(as2), Undefined,
                          IsLastAttempt(attempt)))
             /\ outcome' = Threw(RetryCancelledError)
             /\ endReason' = "cancel-sleep"
             /\ sleepTimer' = Null
             /\ timeoutTimer' = Null
             /\ listeners' = Cleanup(listeners)
             /\ pc' = "done"
    ELSE UNCHANGED <<attempts, events, outcome, endReason, sleepTimer,
                     timeoutTimer, listeners, pc>>

\* The combined signal's abort event reaches the run.  An invocation in
\* flight is left alone; a pending sleep() rejects through its onAbort
\* listener (pre-checks.ts 163-166): the inter-attempt sleep is caught
\* (retry.ts 202-226), the rate-limit wait is not (retry.ts 103) and the
\* rejection leaves retry() through the finally block.  onAbort clears the
\* sleep's timer and rejects; it does not detach itself from the signal.
OnAbort ==
    IF pc = "sleeping"
    THEN LET c == CancelledAttempt(attempt, now)
             as2 == Append(attempts, c)
         IN  /\ attempts' = as2
             /\ events' = Append(events,
                    Event("cancelled", c, Len(as2), Undefined,
                          IsLastAttempt(attempt)))
             /\ outcome' = Threw(RetryCancelledError)
             /\ endReason' = "cancel-sleep"
             /\ sleepTimer' = Null
             /\ timeoutTimer' = Null
             /\ listeners' = Cleanup(listeners)
             /\ pc' = "done"
    ELSE IF pc = "rlwait"
    THEN /\ outcome' = Threw(RetryCancelledError)
         /\ endReason' = "cancel-rlwait"
         /\ sleepTimer' = Null
         /\ timeoutTimer' = Null
         /\ listeners' = Cleanup(listeners)
         /\ pc' = "done"
         /\ UNCHANGED <<attempts, events>>
    ELSE UNCHANGED <<attempts, events, outcome, endReason, sleepTimer,
                     timeoutTimer, listeners, pc>>

\* the caller aborts params.signal
AbortSignal ==
    /\ cfg.hasSignal /\ ~signalAborted
    /\ pc = "idle" \/ Suspended
    /\ signalAborted' = TRUE
    /\ IF CombinedAborted
       THEN UNCHANGED <<attempts, events, outcome, endReason, sleepTimer,
                        timeoutTimer, listeners, pc>>
       ELSE OnAbort
    /\ policyReturned' = NotAsked
    /\ UNCHANGED <<options, caller, harness>>
    /\ UNCHANGED <<cfg, attempt, now, timeoutAborted, collaborators, ghosts>>

\* the overall-timeout timer fires: setupTimeout's callback
TimeoutFires ==
    /\ Suspended
    /\ timeoutTimer # Null /\ now >= timeoutTimer.v
    /\ timeoutAborted' = TRUE
    /\ IF CombinedAborted
       THEN /\ timeoutTimer' = Null
            /\ UNCHANGED <<attempts, events, outcome, endReason, sleepTimer,
                           listeners, pc>>
       ELSE IF pc = "invoking"
       THEN /\ timeoutTimer' = Null
            /\ UNCHANGED <<attempts, events, outcome, endReason, sleepTimer,
                           listeners, pc>>
       ELSE OnAbort
    /\ policyReturned' = NotAsked
    /\ UNCHANGED <<options, caller, harness>>
    /\ UNCHANGED <<cfg, attempt, now, signalAborted, collaborators, ghosts>>

\* the inter-attempt sleep's timer fires; the loop moves to the next attempt
BackoffElapsed ==
    /\ pc = "sleeping"
    /\ sleepTimer # Null /\ now >= sleepTimer.v
    /\ sleepTimer' = Null
    /\ listeners' = [listeners EXCEPT !.sleep = FALSE]
    /\ attempt' = NextAttempt(attempt)
    /\ pc' = "loop"
    /\ policyReturned' = NotAsked
    /\ UNCHANGED <<options, caller, harness>>
    /\ UNCHANGED <<cfg, attempts, events, now, signals, timeoutTimer,
                   collaborators, outcome, ghosts, endReason>>

\* the rate-limit wait's timer fires; `continue` runs the loop increment
RateLimitWaitElapsed ==
    /\ pc = "rlwait"
    /\ sleepTimer # Null /\ now >= sleepTimer.v
    /\ sleepTimer' = Null
    /\ listeners' = [listeners EXCEPT !.sleep = FALSE]
    /\ attempt' = NextAttempt(attempt)
    /\ pc' = "loop"
    /\ policyReturned' = NotAsked
    /\ UNCHANGED <<options, caller, harness>>
    /\ UNCHANGED <<cfg, attempts, events, now, signals, timeoutTimer,
                   collaborators, outcome, ghosts, endReason>>

\* instants worth moving the clock to: the armed timers' deadlines, the
\* tracker's reset time and the end of the breaker's refusal window
TimePoints ==
    (IF timeoutTimer # Null THEN {timeoutTimer.v} ELSE {})
    \cup (IF sleepTimer # Null THEN {sleepTimer.v} ELSE {})
    \cup (IF tracker.present THEN {tracker.resetAt} ELSE {})
    \cup (IF breaker.present /\ breaker.lastFailureTime # Null
          THEN {breaker.lastFailureTime.v + breaker.timeout} ELSE {})

\* time passes while retry() is suspended; a due timer fires before the
\* clock moves past it
AdvanceTime ==
    /\ Suspended
    /\ \E t \in TimePoints :
          /\ t > now
          /\ timeoutTimer # Null => t <= timeoutTimer.v
          /\ sleepTimer # Null => t <= sleepTimer.v
          /\ now' = t
    /\ policyReturned' = NotAsked
    /\ UNCHANGED <<options, caller, harness, listeners>>
    /\ UNCHANGED <<cfg, pc, attempt, attempts, events, signals, timeoutTimer,
                   sleepTimer, collaborators, outcome, ghosts, endReason>>

Next ==
    \/ RejectConfig
    \/ Start
    \/ LoopExit
    \/ PreCheckFails
    \/ RateLimitWait
    \/ Invoke
    \/ FnResolves
    \/ FnRejects
    \/ AbortSignal
    \/ TimeoutFires
    \/ BackoffElapsed
    \/ RateLimitWaitElapsed
    \/ AdvanceTime

Spec == Init /\ [][Next]_vars

\* The steps the run takes by itself: every step but the caller's abort.
\* Each invocation eventually settles and each timer eventually fires, so a
\* step of the run that stays possible is eventually taken.
Progress ==
    \/ RejectConfig
    \/ Start
    \/ LoopExit
    \/ PreCheckFails
    \/ RateLimitWait
    \/ Invoke
    \/ FnResolves
    \/ FnRejects
    \/ TimeoutFires
    \/ BackoffElapsed
    \/ RateLimitWaitElapsed
    \/ AdvanceTime

\* ------------------------------------------------ successive retry() calls
\* The caller's earlier call has settled and it calls retry() again with the
\* same params object: retry.ts 37-55 builds a new attempts array, a new
\* CircuitBreaker from the circuitBreaker options, a new RateLimitTracker
\* holding the caller's rateLimitState object, and a new timeout controller.
RetryAgain ==
    /\ pc = "done"
    /\ runs + 1 < MaxCalls
    /\ runs' = runs + 1
    /\ priorFailed' = IF calls >= 1 /\ Len(history) = calls
                         /\ \A i \in 1..calls : history[i].result = "threw"
                      THEN priorFailed + 1 ELSE 0
    /\ breaker' = options.circuitBreaker
    /\ tracker' = options.rateLimitState
    /\ options' = [options EXCEPT !.shared = options.rateLimitState.present]
    /\ pc' = "idle"
    /\ attempt' = 0
    /\ attempts' = <<>>
    /\ events' = <<>>
    /\ timeoutAborted' = FALSE
    /\ timeoutTimer' = Null
    /\ sleepTimer' = Null
    /\ outcome' = Pending
    /\ calls' = 0
    /\ history' = <<>>
    /\ waits' = 0
    /\ declined' = FALSE
    /\ policyReturned' = NotAsked
    /\ endReason' = "none"
    /\ listeners' = NoListeners
    /\ UNCHANGED <<cfg, now, signalAborted, harness>>

NextCalls == Next \/ RetryAgain

SpecCalls == Init /\ [][NextCalls]_vars

\* ------------------------------------------- the CircuitBreaker on its own
\* A CircuitBreaker driven directly through its public methods, with the
\* clock moving in steps of TickMs between the calls.
BreakerTimeout == 2 * TickMs

run == <<cfg, pc, attempt, attempts, events, signals, timeoutTimer,
         sleepTimer, tracker, outcome, ghosts, endReason, options, caller,
         listeners, probe, policyReturned>>

InitBreaker ==
    /\ breaker \in {NewCircuitBreaker(ft, st, BreakerTimeout) :
                        ft \in 1..MaxThreshold, st \in 1..MaxThreshold}
    /\ now = StartTime
    /\ op = NoCall
    /\ streak = 0
    /\ hoSuccesses = 0
    /\ listeners = NoListeners
    /\ probe = NoProbe
    /\ cfg = Config(Num(1), FALSE, Undefined)
    /\ tracker = NoTracker
    /\ options = Options(breaker, NoTracker)
    /\ runs = 0
    /\ priorFailed = 0
    /\ signalAborted = FALSE
    /\ pc = "idle"
    /\ attempt = 0
    /\ attempts = <<>>
    /\ events = <<>>
    /\ timeoutAborted = FALSE
    /\ timeoutTimer = Null
    /\ sleepTimer = Null
    /\ outcome = Pending
    /\ calls = 0
    /\ history = <<>>
    /\ waits = 0
    /\ declined = FALSE
    /\ policyReturned = NotAsked
    /\ endReason = "none"

CallCanExecute ==
    /\ Len(breaker.notified) < MaxNotified
    /\ LET r == CanExecute(breaker, now)
       IN  /\ breaker' = r.b
           /\ op' = Call("canExecute", r.ok, breaker)
           /\ hoSuccesses' = IF breaker.state # "half-open"
                                /\ r.b.state = "half-open"
                             THEN 0 ELSE hoSuccesses
    /\ UNCHANGED <<now, streak, run>>

CallRecordSuccess ==
    /\ Len(breaker.notified) < MaxNotified
    /\ breaker' = RecordSuccess(breaker)
    /\ op' = Call("recordSuccess", FALSE, breaker)
    /\ streak' = 0
    /\ hoSuccesses' = IF breaker.state = "half-open"
                      THEN hoSuccesses + 1 ELSE hoSuccesses
    /\ UNCHANGED <<now, run>>

CallRecordFailure ==
    /\ Len(breaker.notified) < MaxNotified
    /\ breaker.failureCount < MaxFailureCount
    /\ breaker' = RecordFailure(breaker, now)
    /\ op' = Call("recordFailure", FALSE, breaker)
    /\ streak' = IF breaker.state = "closed" THEN streak + 1 ELSE streak
    /\ UNCHANGED <<now, hoSuccesses, run>>

CallReset ==
    /\ Len(breaker.notified) < MaxNotified
    /\ breaker' = Reset(breaker)
    /\ op' = Call("reset", FALSE, breaker)
    /\ streak' = 0
    /\ UNCHANGED <<now, hoSuccesses, run>>

\* Date.now() moves on between two calls
ClockTick ==
    /\ now < StartTime + MaxTicks * TickMs
    /\ now' = now + TickMs
    /\ op' = Call("tick", FALSE, breaker)
    /\ UNCHANGED <<breaker, streak, hoSuccesses, run>>

NextBreaker ==
    \/ CallCanExecute
    \/ CallRecordSuccess
    \/ CallRecordFailure
    \/ CallReset
    \/ ClockTick

SpecBreaker == InitBreaker /\ [][NextBreaker]_vars

\* ------------------------------------------------------ sleep(), directly
\* One sleep(ms, signal) call and the two events that can settle it.  The
\* promise is probe: dueAt is the deadline of its timer (Null when cleared
\* or fired), listener tells whether onAbort is attached to the signal,
\* settled is the promise's state, resolveCalls and rejectCalls count the
\* calls of resolve() and reject(), first is the event that came first.
SleepMs == {0, TickMs, 2 * TickMs}

SleepPromise(ms, hasSignal, dueAt, listener, settled, res, rej, first) ==
    [name |-> "sleep", ms |-> ms, hasSignal |-> hasSignal, dueAt |-> dueAt,
     listener |-> listener, settled |-> settled, resolveCalls |-> res,
     rejectCalls |-> rej, first |-> first]

\* resolve() and reject() settle a promise that is still pending and do
\* nothing to one that is settled
Settle(p, how) ==
    [p EXCEPT !.settled = IF @ = "pending" THEN how ELSE @,
              !.resolveCalls = IF how = "resolved" THEN @ + 1 ELSE @,
              !.rejectCalls = IF how = "rejected" THEN @ + 1 ELSE @,
              !.first = IF @ = "none"
                        THEN (IF how = "resolved" THEN "timer" ELSE "abort")
                        ELSE @]

\* sleep(ms, signal): rejects at once on an aborted signal, otherwise arms
\* the timer and attaches onAbort
CallSleep ==
    /\ probe = NoProbe
    /\ \E ms \in SleepMs, hasSignal \in BOOLEAN :
          probe' = IF hasSignal /\ signalAborted
                   THEN SleepPromise(ms, hasSignal, Null, FALSE, "rejected",
                                     0, 1, "aborted-before")
                   ELSE SleepPromise(ms, hasSignal, Num(now + ms), hasSignal,
                                     "pending", 0, 0, "none")
    /\ UNCHANGED <<cfg, pc, attempt, attempts, events, now, signals,
                   timeoutTimer, sleepTimer, collaborators, outcome, ghosts,
                   endReason, options, caller, listeners, policyReturned, op,
                   streak, hoSuccesses>>

\* the timer callback: removes onAbort, then resolves
SleepTimerFires ==
    /\ probe.name = "sleep"
    /\ probe.dueAt # Null /\ now >= probe.dueAt.v
    /\ probe' = Settle([probe EXCEPT !.dueAt = Null, !.listener = FALSE],
                       "resolved")
    /\ UNCHANGED <<cfg, pc, attempt, attempts, events, now, signals,
                   timeoutTimer, sleepTimer, collaborators, outcome, ghosts,
                   endReason, options, caller, listeners, policyReturned, op,
                   streak, hoSuccesses>>

SleepSignalAbortsTimerKept ==
    /\ ~signalAborted
    /\ signalAborted' = TRUE
    /\ probe' = IF probe.name = "sleep" /\ probe.listener
                THEN Settle(probe, "rejected")
                ELSE probe
    /\ UNCHANGED <<cfg, pc, attempt, attempts, events, now, timeoutAborted,
                   timeoutTimer, sleepTimer, collaborators, outcome, ghosts,
                   endReason, options, caller, listeners, policyReturned, op,
                   streak, hoSuccesses>>

\* the signal aborts: onAbort, when attached, clears the timer and rejects
\* (it stays attached; a signal dispatches abort once)
SleepSignalAborts ==
    /\ ~signalAborted
    /\ signalAborted' = TRUE
    /\ probe' = IF probe.name = "sleep" /\ probe.listener
                THEN Settle([probe EXCEPT !.dueAt = Null], "rejected")
                ELSE probe
    /\ UNCHANGED <<cfg, pc, attempt, attempts, events, now, timeoutAborted,
                   timeoutTimer, sleepTimer, collaborators, outcome, ghosts,
                   endReason, options, caller, listeners, policyReturned, op,
                   streak, hoSuccesses>>

\* time passes; a due timer's callback may run late
SleepClockTick ==
    /\ now < StartTime + MaxTicks * TickMs
    /\ now' = now + TickMs
    /\ UNCHANGED <<cfg, pc, attempt, attempts, events, signals,
                   timeoutTimer, sleepTimer, collaborators, outcome, ghosts,
                   endReason, options, caller, listeners, policyReturned, op,
                   streak, hoSuccesses, probe>>

InitSleep ==
    /\ Init
    /\ cfg = Config(Num(1), FALSE, Undefined)
    /\ ~breaker.present /\ ~tracker.present

NextSleep ==
    \/ CallSleep
    \/ SleepTimerFires
    \/ SleepSignalAborts
    \/ SleepClockTick

SpecSleep == InitSleep /\ [][NextSleep]_vars

\* ------------------------------------- policies and pure functions, direct
\* twice the value of a finite number: comparing these compares the numbers
Twice(x) == 2 * x.v + (IF x.t = "frac" THEN 1 ELSE 0)

RECURSIVE Pow(_, _)
Pow(m, n) == IF n = 0 THEN 1 ELSE m * Pow(m, n - 1)

\* a parameter left undefined takes its default value
Default(x, d) == IF x = Undefined THEN Num(d) ELSE x

PolicyKinds == {"ExponentialBackoffPolicy", "RateLimitAwarePolicy"}

\* constructor arguments: undefined, -1, 0, 1, 1000, 3000, 0.5, NaN, Infinity
PolicyDelays ==
    {Undefined, Num(-1), Num(0), Num(1), Num(1000), Num(3000), Frac(0), NaN,
     Infinity}

\* multipliers: undefined, -1, 0, 1, 2, 0.5, NaN, Infinity
PolicyMultipliers ==
    {Undefined, Num(-1), Num(0), Num(1), Num(2), Frac(0), NaN, Infinity}

\* new ExponentialBackoffPolicy(b, c, m) / new RateLimitAwarePolicy(b, c, m):
\* the error thrown (NullError when none) and the fields of the new object
NewPolicy(kind, b, c, m) ==
    LET base == Default(b, DEFAULT_BASE_DELAY_MS)
        cap == Default(c, DEFAULT_MAX_DELAY_MS)
        mult == Default(m, DEFAULT_MULTIPLIER)
        ok == /\ ~(~IsFinite(base) \/ Twice(base) < 0)
              /\ ~(~IsFinite(cap) \/ Twice(cap) < Twice(base))
              /\ ~(~IsFinite(mult) \/ Twice(mult) <= 0)
    IN  [threw |-> IF ok THEN NullError ELSE RetryConfigurationError,
         kind |-> kind, baseDelayMs |-> base, maxDelayMs |-> cap,
         multiplier |-> mult]

\* the policies that can be constructed from whole-number arguments
Policies ==
    {pol \in {NewPolicy(kind, b, c, m) :
                 kind \in PolicyKinds, b \in PolicyDelays, c \in PolicyDelays,
                 m \in PolicyMultipliers} :
        /\ pol.threw = NullError
        /\ pol.baseDelayMs.t = "num" /\ pol.maxDelayMs.t = "num"
        /\ pol.multiplier.t = "num"}

\* Math.floor(e + e * EXPONENTIAL_JITTER_FACTOR * (Math.random() * 2 - 1))
\* with Math.random() = k / RandomSteps
ExponentialJitter(e, k) ==
    (e * (100 * RandomSteps
          + EXPONENTIAL_JITTER_PERCENT * (2 * k - RandomSteps)))
    \div (100 * RandomSteps)

CalculateDelayUncapped(pol, att, domain, k) ==
    IF domain = Permanent
       \/ (pol.kind = "ExponentialBackoffPolicy" /\ domain = RateLimit)
    THEN Null
    ELSE LET e == pol.baseDelayMs.v * Pow(pol.multiplier.v, att - 1)
         IN  Num(Max(MIN_DELAY_MS, ExponentialJitter(e, k)))

\* calculateDelay of both policies
CalculateDelay(pol, att, domain, k) ==
    IF domain = Permanent
       \/ (pol.kind = "ExponentialBackoffPolicy" /\ domain = RateLimit)
    THEN Null
    ELSE LET e == Min(pol.baseDelayMs.v * Pow(pol.multiplier.v, att - 1),
                      pol.maxDelayMs.v)
         IN  Num(Max(MIN_DELAY_MS, ExponentialJitter(e, k)))

\* the response handed to classify: status absent, 429, 404, 503, 200;
\* retryAfter absent, 0, 2
ClassifyStatuses == {Undefined, Num(429), Num(404), Num(503), Num(200)}
ClassifyRetryAfters == {Undefined, Num(0), Num(2)}

Response(status, retryAfter) ==
    [present |-> TRUE, status |-> status, retryAfter |-> retryAfter]

NoResponse ==
    [present |-> FALSE, status |-> Undefined, retryAfter |-> Undefined]

\* attempt records handed to computeMetrics: a success and one failure of
\* each domain
MetricRecords ==
    {CreateRetryAttemptSuccess(1, Val(7), Unknown, 0, StartTime)}
    \cup {CreateRetryAttemptFailure(1, ThrownError(1), d, 0, StartTime) :
             d \in FailureDomain}

Histories == UNION {[1..n -> MetricRecords] : n \in 0..MaxHistory}

\* everything but probe
context ==
    <<cfg, pc, attempt, attempts, events, now, signals, timeoutTimer,
      sleepTimer, collaborators, outcome, ghosts, endReason, options, caller,
      listeners, policyReturned, op, streak, hoSuccesses>>

\* One direct call of a pure function by a caller that has made none yet.
ConstructPolicy ==
    /\ probe = NoProbe
    /\ \E kind \in PolicyKinds, b \in PolicyDelays, c \in PolicyDelays,
          m \in PolicyMultipliers :
          probe' = [name |-> "construct", args |-> <<b, c, m>>,
                    ret |-> NewPolicy(kind, b, c, m)]
    /\ UNCHANGED context

CallCalculateDelay ==
    /\ probe = NoProbe
    /\ \E pol \in Policies, att \in 1..(MaxAttemptsBound + 1),
          domain \in FailureDomain, k \in 0..(RandomSteps - 1) :
          probe' = [name |-> "calculateDelay", policy |-> pol,
                    attempt |-> att, failureDomain |-> domain,
                    ret |-> CalculateDelay(pol, att, domain, k)]
    /\ UNCHANGED context

CallClassify ==
    /\ probe = NoProbe
    /\ \E response \in {NoResponse}
                       \cup {Response(st, ra) : st \in ClassifyStatuses,
                                                ra \in ClassifyRetryAfters},
          transientMessage \in BOOLEAN :
          probe' = [name |-> "classify", response |-> response,
                    transientMessage |-> transientMessage,
                    ret |-> Classify([transientMessage |-> transientMessage],
                                     response)]
    /\ UNCHANGED context

\* breakers handed to performPreChecks: none, closed, open since 100 ms (its
\* timeout has elapsed), open since 50 ms, half-open
ProbeBreakers ==
    LET closed == NewCircuitBreaker(1, 1, 100)
        elapsed == RecordFailure(closed, StartTime - 100)
    IN  {NoBreaker, closed, elapsed, RecordFailure(closed, StartTime - 50),
         CanExecute(elapsed, StartTime).b}

CallPerformPreChecks ==
    /\ probe = NoProbe
    /\ \E aborted \in BOOLEAN, b \in ProbeBreakers, tr \in Trackers :
          probe' = [name |-> "performPreChecks", aborted |-> aborted,
                    breaker |-> b, tracker |-> tr, now |-> StartTime,
                    ret |-> PerformPreChecks(1, aborted, b, tr, StartTime)]
    /\ UNCHANGED context

CallComputeMetrics ==
    /\ probe = NoProbe
    /\ \E as \in Histories, wasSuccessful \in BOOLEAN :
          probe' = [name |-> "computeMetrics", attempts |-> as,
                    wasSuccessful |-> wasSuccessful,
                    ret |-> ComputeMetrics(as, wasSuccessful)]
    /\ UNCHANGED context

InitUnits ==
    /\ Init
    /\ cfg \in InvalidConfigs \cup {Config(Num(1), FALSE, Undefined)}
    /\ ~breaker.present /\ ~tracker.present

NextUnits ==
    \/ RejectConfig
    \/ Start
    \/ ConstructPolicy
    \/ CallCalculateDelay
    \/ CallClassify
    \/ CallComputeMetrics
    \/ CallPerformPreChecks

SpecUnits == InitUnits /\ [][NextUnits]_vars

TypeOK ==
    /\ pc \in {"idle", "rejected", "loop", "invoking", "sleeping", "rlwait",
               "done"}
    /\ calls \in Nat
    /\ (pc \in {"sleeping", "rlwait"}) => ~CombinedAborted

\* ------------------------------------------------------------- properties
Terminal == {"success", "failure", "cancelled"}
Last(seq) == seq[Len(seq)]
NoCancellation == ~signalAborted /\ ~timeoutAborted
AllThrewRetryable(n) ==
    \A i \in 1..n : history[i].result = "threw" /\ history[i].domain # Permanent
\* the error executeAttempt holds for the failure of invocation i
ErrorOf(i) == IF history[i].isError THEN ThrownError(i) ELSE CoercedError(i)
\* the run is over and its last invocation failed Permanent or with the
\* policy declining
EndedOnStop ==
    /\ pc = "done" /\ calls >= 1 /\ Len(history) = calls
    /\ Last(history).result = "threw"
    /\ Last(history).domain = Permanent \/ Last(history).delay = Null

\* C1: once an invocation's failure is classified Permanent, no further
\* invocation is made (so a Permanent first invocation is the only one).
C1_PermanentNeverRetried ==
    \A i \in 1..Len(history) :
        history[i].domain = Permanent => calls = i /\ Len(history) = i

C1_Witness ==
    /\ pc = "done" /\ cfg.maxAttempts > 1 /\ endReason = "permanent"
    /\ calls = 1 /\ history[1].domain = Permanent

\* C2 as claimed: a run ended by a Permanent failure or a policy stop throws
\* the very object the operation threw.
C2_ThrowsSameObject ==
    EndedOnStop => outcome.status = "threw" /\ outcome.error = ThrownError(calls)

\* C2 amended: such a run throws the error executeAttempt holds for the
\* failure, which is the operation's own Error object when it threw one and
\* the Error coerced from the thrown value otherwise; never a retry error.
C2_ThrowsOriginalOrCoerced ==
    EndedOnStop => outcome.status = "threw" /\ outcome.error = ErrorOf(calls)

C2_Witness ==
    /\ EndedOnStop /\ IsLastAttempt(attempt) /\ cfg.maxAttempts > 1
    /\ Last(history).domain # Permanent /\ Last(history).isError
    /\ outcome.error = ThrownError(calls)

\* C3: with no cancellation or timeout, only retryable failures and a policy
\* that always gives a valid delay, a finished run has seen a success or has
\* made maxAttempts invocations.
C3_RetriesUntilSuccessOrMax ==
    (/\ pc = "done" /\ NoCancellation /\ ~declined
     /\ \A i \in 1..Len(history) : history[i].domain # Permanent)
    => \/ \E i \in 1..Len(history) : history[i].result # "threw"
       \/ calls = cfg.maxAttempts

\* C4: when every invocation fails retryably, the policy always gives a
\* delay and nothing is cancelled, the run makes maxAttempts invocations and
\* throws RetryExhaustedError(maxAttempts, last error, its domain).
C4_ExhaustedAfterMaxAttempts ==
    (/\ pc = "done" /\ NoCancellation /\ ~declined
     /\ AllThrewRetryable(Len(history)))
    => /\ calls = cfg.maxAttempts
       /\ outcome = ThrewExhausted(cfg.maxAttempts, ErrorOf(calls),
                                   Last(history).domain)

\* C5: k retryable failures followed by a success, with no rate-limit wait
\* and no cancellation, return the success value with k + 1 attempts and
\* totalRetries = k.
C5_SuccessAfterFailures ==
    (/\ pc = "done" /\ NoCancellation /\ waits = 0
     /\ calls >= 1 /\ Len(history) = calls /\ calls <= cfg.maxAttempts
     /\ AllThrewRetryable(calls - 1)
     /\ Last(history).result # "threw")
    => /\ outcome.status = "returned"
       /\ outcome.value = Last(history).value
       /\ Len(attempts) = calls
       /\ outcome.metrics.totalRetries = calls - 1

\* C6: the operation is never invoked more than maxAttempts times.
C6_AtMostMaxAttempts == calls <= cfg.maxAttempts

C6_Witness ==
    /\ pc = "done" /\ endReason = "exhausted" /\ cfg.maxAttempts > 1
    /\ calls = cfg.maxAttempts

\* C7: a run that returns a result has as many attempt records as it made
\* invocations, rate-limit waits included.
C7_AttemptsEqualInvocations ==
    outcome.status = "returned" => Len(attempts) = calls

\* C8: after a rate-limit wait the same attempt number is preflighted again,
\* and with maxAttempts = 1 a run that waited still invokes the operation.
C8_WaitKeepsAttemptSlot ==
    /\ (pc = "loop" /\ attempts # <<>>
        /\ Last(attempts).error = RateLimitActiveError)
       => attempt = Last(attempts).attempt
    /\ (pc = "done" /\ cfg.maxAttempts = 1 /\ waits >= 1 /\ NoCancellation)
       => calls = 1

\* C9: a finished run has emitted exactly one terminal event, as its last.
C9_OneTerminalEventLast ==
    pc = "done"
    => /\ events # <<>>
       /\ Last(events).type \in Terminal
       /\ \A i \in 1..(Len(events) - 1) : events[i].type \notin Terminal

\* C10: when the combined signal trips during an inter-attempt sleep, the
\* run ends in that step: a cancelled attempt with delay 0 is appended, a
\* cancelled event is emitted, RetryCancelledError is thrown; and a settled
\* run never invokes the operation again.
C10_CancelDuringSleep ==
    [][/\ (pc = "sleeping" /\ ~CombinedAborted /\ CombinedAborted')
          => /\ pc' = "done"
             /\ sleepTimer' = Null
             /\ attempts' = Append(attempts,
                    CreateRetryAttemptFailure(attempt, RetryCancelledError,
                                              Unknown, 0, now))
             /\ Len(events') = Len(events) + 1
             /\ Last(events').type = "cancelled"
             /\ Last(events').attempt = Last(attempts')
             /\ outcome' = Threw(RetryCancelledError)
             /\ calls' = calls
       /\ pc = "done" => calls' = calls /\ pc' = "done"]_vars

C10_Witness ==
    /\ pc = "done" /\ endReason = "cancel-sleep"
    /\ calls < cfg.maxAttempts
    /\ Last(attempts).delay = 0
    /\ Last(events).type = "cancelled"

\* C11: when the combined signal is already aborted at a preflight check,
\* the run ends in that step without invoking the operation: one failed
\* record with delay 0 and domain Unknown is appended, the event emitted for
\* it has type cancelled, and RetryCancelledError is thrown.
C11_CancelAtPreflight ==
    [][(pc = "loop" /\ LoopCondition(attempt) /\ CombinedAborted)
       => /\ pc' = "done"
          /\ calls' = calls
          /\ attempts' = Append(attempts,
                 CreateRetryAttemptFailure(attempt, RetryCancelledError,
                                           Unknown, 0, now))
          /\ Len(events') = Len(events) + 1
          /\ Last(events').type = "cancelled"
          /\ Last(events').attempt = Last(attempts')
          /\ outcome' = Threw(RetryCancelledError)]_vars

\* the breaker would refuse an admission check made now
Refusing(b, t) ==
    b.present /\ b.state = "open" /\ t - b.lastFailureTime.v < b.timeout

\* C12: when the breaker refuses admission at a preflight check, the run
\* ends in that step without invoking the operation and without sleeping:
\* one failed record with delay 0, domain Transient and the 'Circuit breaker
\* is open' error is appended, a failure event is emitted for it and that
\* error is thrown.
C12_BreakerRefusal ==
    [][(pc = "loop" /\ LoopCondition(attempt) /\ ~CombinedAborted
        /\ Refusing(breaker, now))
       => /\ pc' = "done"
          /\ calls' = calls
          /\ sleepTimer' = Null
          /\ attempts' = Append(attempts,
                 CreateRetryAttemptFailure(attempt, CircuitError("open"),
                                           Transient, 0, now))
          /\ Len(events') = Len(events) + 1
          /\ Last(events').type = "failure"
          /\ Last(events').attempt = Last(attempts')
          /\ outcome' = Threw(CircuitError("open"))]_vars

C12_Witness ==
    /\ pc = "done" /\ endReason = "breaker"
    /\ calls < cfg.maxAttempts /\ attempt <= cfg.maxAttempts
    /\ Last(attempts).error = CircuitError("open")
    /\ Last(events).type = "failure"

\* C13: a recordFailure found the breaker closed leaves it closed while the
\* run of consecutive failures is shorter than failureThreshold and opens it
\* when the run reaches failureThreshold; a recordSuccess while closed
\* restarts the run at 0.
C13_OpensAtThreshold ==
    /\ (op.name = "recordFailure" /\ op.from = "closed")
       => breaker.state = (IF streak >= breaker.failureThreshold
                           THEN "open" ELSE "closed")
    /\ (op.name = "recordSuccess" /\ op.from = "closed")
       => breaker.state = "closed" /\ streak = 0 /\ breaker.failureCount = 0
    /\ breaker.state = "closed" => streak < breaker.failureThreshold

\* C14: a canExecute that finds the breaker open answers false and leaves it
\* open while fewer than timeout ms have passed since the last recorded
\* failure, and answers true and makes it half-open once timeout ms have
\* passed; the clock moving never changes the state.
C14_OpenUntilTimeout ==
    /\ (op.name = "canExecute" /\ op.from = "open")
       => IF now - breaker.lastFailureTime.v < breaker.timeout
          THEN ~op.ret /\ breaker.state = "open"
          ELSE op.ret /\ breaker.state = "half-open"
    /\ op.name = "tick" => breaker.state = op.from

C14_Witness ==
    /\ op.name = "canExecute" /\ op.from = "open" /\ op.ret
    /\ breaker.state = "half-open"
    /\ now - breaker.lastFailureTime.v = breaker.timeout

\* C15: a recordSuccess that finds the breaker half-open closes it, with the
\* failure counter and the success counter both 0, when it is the
\* successThreshold-th since half-open was entered, and leaves it half-open
\* otherwise.
C15_ClosesAtSuccessThreshold ==
    (op.name = "recordSuccess" /\ op.from = "half-open")
    => IF hoSuccesses >= breaker.successThreshold
       THEN /\ breaker.state = "closed"
            /\ breaker.failureCount = 0
            /\ breaker.successCount = 0
       ELSE breaker.state = "half-open"

\* C16: a recordFailure that finds the breaker half-open opens it, sets the
\* success counter to 0 and starts a refusal window of timeout ms at the
\* time of that failure.
C16_HalfOpenFailureReopens ==
    (op.name = "recordFailure" /\ op.from = "half-open")
    => /\ breaker.state = "open"
       /\ breaker.successCount = 0
       /\ breaker.lastFailureTime = Num(now)
       /\ \A d \in 0..(breaker.timeout - 1) : ~CanExecute(breaker, now + d).ok
       /\ CanExecute(breaker, now + breaker.timeout).ok

C16_Witness ==
    /\ op.name = "recordFailure" /\ op.from = "half-open"
    /\ hoSuccesses >= 1
    /\ breaker.state = "open" /\ breaker.successCount = 0

\* a method call changed the state and told onStateChange once, or left the
\* state alone and told it nothing
NotifiedOnChangeOnly ==
    IF breaker.state # op.from
    THEN /\ Len(breaker.notified) = op.seen + 1
         /\ Last(breaker.notified) = breaker.state
    ELSE Len(breaker.notified) = op.seen

\* the breaker is closed with everything cleared
Cleared ==
    /\ breaker.state = "closed"
    /\ breaker.failureCount = 0 /\ breaker.successCount = 0
    /\ breaker.lastFailureTime = Null

\* C17 as claimed: every method call, reset included, invokes onStateChange
\* once with the new state when it changes the state and not at all when it
\* does not; reset() leaves the breaker closed with everything cleared.
C17_CallbackOnlyOnChange ==
    /\ op.name \in {"canExecute", "recordSuccess", "recordFailure", "reset"}
       => NotifiedOnChangeOnly
    /\ op.name = "reset" => Cleared

\* C17 amended: canExecute, recordSuccess and recordFailure invoke
\* onStateChange once with the new state when they change the state and not
\* at all when they do not; reset() leaves the breaker closed with
\* everything cleared and invokes onStateChange('closed') once, also when the
\* breaker was closed already.
C17_CallbackOnChangeAndReset ==
    /\ op.name \in {"canExecute", "recordSuccess", "recordFailure"}
       => NotifiedOnChangeOnly
    /\ op.name = "reset"
       => /\ Cleared
          /\ Len(breaker.notified) = op.seen + 1
          /\ Last(breaker.notified) = "closed"

C17_Witness ==
    /\ op.name = "reset" /\ op.from = "closed" /\ op.seen >= 3
    /\ Len(breaker.notified) = op.seen + 1
    /\ breaker.notified[1] = "open" /\ breaker.notified[2] = "half-open"

\* C18: once failureThreshold retry() calls in a row with maxAttempts 1 have
\* ended with the operation failing, a further retry() call with the same
\* circuitBreaker options ends with 'Circuit breaker is open' and no
\* invocation of the operation.
C18_BreakerCarriesOver ==
    (/\ pc = "done" /\ cfg.maxAttempts = 1 /\ ~signalAborted
     /\ options.circuitBreaker.present
     /\ priorFailed >= options.circuitBreaker.failureThreshold)
    => /\ calls = 0
       /\ outcome = Threw(CircuitError("open"))

\* C19: a failure classified RateLimit whose metadata carries Retry-After
\* s >= 0 gets a delay within 10% of s * 1000 ms (then clamped), recorded and
\* slept, whatever the policy returned; the run is not stopped by the policy
\* declining.
C19_RetryAfterOverrides ==
    \A i \in 1..Len(history) :
        (/\ history[i].domain = RateLimit
         /\ history[i].retryAfter.t = "num" /\ history[i].retryAfter.v >= 0)
        => LET s == history[i].retryAfter.v
               d == history[i].delay
           IN  /\ d # Null
               /\ d.v >= Min(900 * s, 300000)
               /\ d.v <= Min(1100 * s, 300000)
               /\ (i = Len(history) /\ pc = "sleeping")
                  => /\ Last(attempts).delay = d.v
                     /\ sleepTimer.v = Last(attempts).timestamp + d.v
               /\ (i = Len(history) /\ pc = "done")
                  => endReason # "policy-stop"

\* C20: the delay executeAttempt gives for a failed invocation, the delay on
\* its attempt record and the length of every inter-attempt sleep are
\* integers in [0, 300000].
C20_DelayWithinBounds ==
    /\ \A i \in 1..Len(history) :
          history[i].result = "threw"
          => \/ history[i].delay = Null
             \/ /\ history[i].delay.t = "num"
                /\ history[i].delay.v \in 0..300000
    /\ \A i \in 1..Len(attempts) :
          attempts[i].error.kind \in {"thrown", "coerced"}
          => attempts[i].delay \in 0..300000
    /\ pc = "sleeping"
       => (sleepTimer.v - Last(attempts).timestamp) \in 0..300000

C20_Witness ==
    /\ pc = "sleeping" /\ calls = 1
    /\ history[1].retryAfter = Undefined
    /\ history[1].delay = Num(300000)
    /\ Last(attempts).delay = 300000
    /\ sleepTimer.v - now = 300000

\* the policy stops the retrying: it returned null or something that is not
\* a finite number >= 0
PolicyStops(p) == p # NotAsked /\ (p = Null \/ ~IsFinite(p) \/ p.v < 0)

\* C21: when the policy returns null or a value that is not a finite
\* non-negative number for a failed invocation that is not a RateLimit
\* failure carrying Retry-After, the run ends there as it does for a
\* Permanent failure: the failure's record is the last one and has delay 0,
\* the last two events are 'attempt' then 'failure' for it, no sleep timer
\* is armed, the failure's error is thrown and no further invocation is made.
C21_PolicyStopFailsFast ==
    (/\ Len(history) >= 1
     /\ Last(history).result = "threw"
     /\ PolicyStops(policyReturned)
     /\ ~(Last(history).domain = RateLimit
          /\ Last(history).retryAfter # Undefined))
    => /\ pc = "done" /\ calls = Len(history)
       /\ sleepTimer = Null
       /\ Last(attempts).error = ErrorOf(calls)
       /\ Last(attempts).delay = 0
       /\ Len(events) >= 2
       /\ events[Len(events) - 1].type = "attempt"
       /\ events[Len(events) - 1].attempt = Last(attempts)
       /\ Last(events).type = "failure"
       /\ Last(events).attempt = Last(attempts)
       /\ outcome.status = "threw" /\ outcome.error = ErrorOf(calls)

C21_Witness ==
    /\ pc = "done" /\ cfg.maxAttempts = 2 /\ calls = 1
    /\ history[1].result = "threw" /\ history[1].domain = Transient
    /\ policyReturned = NaN
    /\ endReason = "policy-stop" /\ sleepTimer = Null

\* the options of the call: maxAttempts is not a whole number >= 1, or a
\* timeout is given that is not a finite number > 0
BadOptions ==
    \/ cfg.maxAttemptsParam.t # "num"
    \/ cfg.maxAttemptsParam.v < 1
    \/ /\ cfg.timeout # Undefined
       /\ cfg.timeout.t \notin {"num", "frac"} \/ Twice(cfg.timeout) <= 0

\* C22: a retry() call whose maxAttempts is not an integer >= 1 or whose
\* timeout is not a finite number > 0 never gets past validation: it makes
\* no invocation, emits no event, arms no timer, attaches no listener, and
\* when it has settled it has thrown RetryConfigurationError; and
\* constructing a policy from finite numbers with base < 0, cap < base or
\* multiplier <= 0 throws RetryConfigurationError.
C22_InvalidConfigRejected ==
    /\ BadOptions
       => /\ pc \in {"idle", "rejected"}
          /\ calls = 0 /\ events = <<>> /\ attempts = <<>>
          /\ timeoutTimer = Null /\ sleepTimer = Null
          /\ listeners = NoListeners
          /\ pc = "rejected" => outcome = Threw(RetryConfigurationError)
    /\ probe.name = "construct"
       => LET b == probe.ret.baseDelayMs
              c == probe.ret.maxDelayMs
              m == probe.ret.multiplier
          IN  (/\ IsFinite(b) /\ IsFinite(c) /\ IsFinite(m)
               /\ Twice(b) < 0 \/ Twice(c) < Twice(b) \/ Twice(m) <= 0)
              => probe.ret.threw = RetryConfigurationError

C22_Witness ==
    /\ pc = "rejected" /\ cfg.maxAttemptsParam = Frac(1)
    /\ outcome = Threw(RetryConfigurationError)
    /\ calls = 0 /\ events = <<>>
    /\ probe.name = "construct"
    /\ probe.args = <<Num(1000), Num(1), Num(2)>>
    /\ probe.ret.threw = RetryConfigurationError

\* the first rule of the classifier that matches, as the claim lists them
FirstMatchingRule(response, transientMessage) ==
    IF response.status = Num(429) THEN RateLimit
    ELSE IF response.retryAfter # Undefined THEN RateLimit
    ELSE IF response.status # Undefined /\ response.status.v >= 500
         THEN Transient
    ELSE IF response.status # Undefined /\ response.status.v >= 400
            /\ response.status.v < 500
         THEN Permanent
    ELSE IF transientMessage THEN Transient
    ELSE Unknown

\* C26: classify returns the first matching rule for every combination of
\* status, parsed Retry-After (absent, 0, positive) and message: 429 gives
\* RateLimit, a present Retry-After value gives RateLimit, status >= 500
\* gives Transient, status in [400, 500) gives Permanent, a transient token
\* in the message gives Transient, anything else Unknown.
C26_ClassifyFirstMatch ==
    probe.name = "classify"
    => probe.ret = FirstMatchingRule(probe.response, probe.transientMessage)

\* C27: for any history of length n, computeMetrics gives totalRetries =
\* max(0, n - 1), successRate 1 exactly when the success flag is set, and a
\* failureDomainDistribution over all four domains whose entry for a domain
\* is the number of records that carry an error and that domain.
C27_MetricsFromHistory ==
    probe.name = "computeMetrics"
    => LET as == probe.attempts
           n == Len(as)
           ret == probe.ret
       IN  /\ ret.totalRetries = (IF n = 0 THEN 0 ELSE n - 1)
           /\ ret.successRate \in {0, 1}
           /\ ret.successRate = 1 <=> probe.wasSuccessful
           /\ DOMAIN ret.failureDomainDistribution = FailureDomain
           /\ \A d \in FailureDomain :
                 ret.failureDomainDistribution[d]
                 = Cardinality({i \in 1..n : /\ as[i].error # NullError
                                              /\ as[i].failureDomain = d})

C27_Witness ==
    /\ probe.name = "computeMetrics" /\ Len(probe.attempts) = 3
    /\ probe.attempts[1].failureDomain = Transient
    /\ probe.attempts[2].failureDomain = Transient
    /\ probe.attempts[3].error = NullError
    /\ probe.wasSuccessful
    /\ probe.ret.totalRetries = 2
    /\ probe.ret.failureDomainDistribution[Transient] = 2
    /\ probe.ret.failureDomainDistribution[Unknown] = 0

\* min(base * multiplier^(attempt - 1), cap) of a calculateDelay call
Exponential(pol, att) ==
    Min(pol.baseDelayMs.v * Pow(pol.multiplier.v, att - 1), pol.maxDelayMs.v)

\* which calls of calculateDelay return null and which a delay
NullForDomain ==
    probe.name = "calculateDelay"
    => /\ probe.failureDomain = Permanent => probe.ret = Null
       /\ (probe.policy.kind = "ExponentialBackoffPolicy"
           /\ probe.failureDomain = RateLimit) => probe.ret = Null
       /\ (probe.policy.kind = "RateLimitAwarePolicy"
           /\ probe.failureDomain # Permanent) => probe.ret # Null

\* C28 as claimed: both policies return null for Permanent, the exponential
\* one also for RateLimit, the rate-limit-aware one a delay for RateLimit,
\* Transient and Unknown; a delay is an integer >= 0 within 25% of
\* e = min(base * multiplier^(attempt - 1), cap): 0.75 e <= d <= 1.25 e.
C28_DelayWithinQuarter ==
    /\ NullForDomain
    /\ (probe.name = "calculateDelay" /\ probe.ret # Null)
       => LET e == Exponential(probe.policy, probe.attempt)
              d == probe.ret
          IN  /\ d.t = "num" /\ d.v >= 0
              /\ 3 * e <= 4 * d.v /\ 4 * d.v <= 5 * e

\* C28 amended: the jittered value is rounded down to a whole millisecond,
\* so a delay is an integer >= 0 that is at most 1.25 e and more than
\* 0.75 e - 1.
C28_DelayWithinQuarterFloored ==
    /\ NullForDomain
    /\ (probe.name = "calculateDelay" /\ probe.ret # Null)
       => LET e == Exponential(probe.policy, probe.attempt)
              d == probe.ret
          IN  /\ d.t = "num" /\ d.v >= 0
              /\ 3 * e - 4 < 4 * d.v /\ 4 * d.v <= 5 * e

C28_Witness ==
    /\ probe.name = "calculateDelay"
    /\ probe.policy.kind = "RateLimitAwarePolicy"
    /\ probe.policy.baseDelayMs = Num(1000)
    /\ probe.policy.maxDelayMs = Num(3000)
    /\ probe.policy.multiplier = Num(2)
    /\ probe.attempt = 3 /\ probe.failureDomain = RateLimit
    /\ probe.ret = Num(2250)

\* an invocation settles in this step, by resolving
Resolves ==
    /\ pc = "invoking" /\ Len(history') = Len(history) + 1
    /\ Last(history').result # "threw"

\* C23: a cancellation or overall timeout that trips while an invocation is
\* in flight leaves the invocation and the run's records alone, and when the
\* invocation then resolves, retry() returns the value it resolved to as a
\* success.
C23_InFlightRunsToCompletion ==
    [][/\ (pc = "invoking" /\ ~CombinedAborted /\ CombinedAborted')
          => /\ pc' = "invoking"
             /\ UNCHANGED <<attempts, events, outcome, calls, history>>
       /\ (Resolves /\ CombinedAborted)
          => /\ pc' = "done"
             /\ outcome'.status = "returned"
             /\ outcome'.value = Last(history').value
             /\ Last(events').type = "success"]_vars

\* C24: when retry() has settled, on every exit path, the overall-timeout
\* timer is cleared, the abort listeners of the signal composition are
\* removed, and no sleep timer and no abort listener of a sleep remains.
C24_NothingLeftBehind ==
    pc \in {"done", "rejected"}
    => /\ timeoutTimer = Null
       /\ sleepTimer = Null
       /\ ~listeners.compose
       /\ ~listeners.sleep

\* C25: whenever an invocation completes without throwing, whatever the
\* value, the run appends a success record for it (that value, no error,
\* delay 0, domain Unknown), notifies the breaker of the success,
\* decrements the tracker, emits a success event for the record and returns
\* a result with that value.
C25_ResolvedIsSuccess ==
    [][Resolves
       => /\ pc' = "done"
          /\ attempts' = Append(attempts, Last(attempts'))
          /\ Last(attempts').error = NullError
          /\ Last(attempts').result = Last(history').value
          /\ Last(attempts').delay = 0
          /\ Last(attempts').failureDomain = Unknown
          /\ breaker.present => breaker' = RecordSuccess(breaker)
          /\ tracker.present
             => tracker' = [tracker EXCEPT !.remaining = Max(0, @ - 1)]
          /\ events' = Append(events, Last(events'))
          /\ Last(events').type = "success"
          /\ Last(events').attempt = Last(attempts')
          /\ outcome'.status = "returned"
          /\ outcome'.value = Last(history').value]_vars

\* C29: with a tracker, a preflight check holds the run back exactly when
\* remaining <= 0 and now < resetAt: then no invocation starts, and the wait
\* recorded and slept is max(0, resetAt - now); when remaining > 0, when
\* now >= resetAt or when there is no tracker state, no wait is made.
C29_HeldBackWhenLimited ==
    [][pc = "loop"
       => LET limited == /\ tracker.present /\ tracker.remaining <= 0
                         /\ now < tracker.resetAt
              wait == IF tracker.resetAt - now > 0
                      THEN tracker.resetAt - now ELSE 0
          IN  /\ limited => pc' # "invoking"
              /\ ~limited => pc' # "rlwait"
              /\ pc' = "rlwait"
                 => /\ attempts' = Append(attempts, Last(attempts'))
                    /\ Last(attempts').delay = wait
                    /\ sleepTimer' = Num(now + wait)
                    /\ calls' = calls
              /\ pc' = "invoking"
                 => attempts' = attempts /\ sleepTimer' = sleepTimer]_vars

C29_Witness ==
    /\ pc = "rlwait" /\ tracker.present /\ tracker.remaining = 0
    /\ now < tracker.resetAt
    /\ Last(attempts).delay = tracker.resetAt - now
    /\ sleepTimer = Num(tracker.resetAt)
    /\ calls = 0

\* C30: with a tracker, remaining goes down by one, not below 0, in the
\* step in which an invocation settles, resolved or failed, and the
\* tracker's state changes in no other step (a failure classified RateLimit
\* may bring headers that replace the state and is left out).
C30_DecrementPerInvocation ==
    [][tracker.present
       => IF pc = "invoking" /\ Len(history') = Len(history) + 1
          THEN Last(history').domain # RateLimit
               => tracker' = [tracker EXCEPT !.remaining = Max(0, @ - 1)]
          ELSE tracker' = tracker]_vars

\* the record carries a success value / an error
HasValue(rec) == rec.result # Null /\ rec.result # Undefined
HasError(rec) == rec.error # NullError /\ rec.error # UndefinedError

\* C31: every attempt record in the run's history or handed to onEvent
\* carries exactly one of a success value and an error, whatever the
\* operation resolved to or threw.
C31_ValueXorError ==
    /\ \A i \in 1..Len(attempts) :
          HasValue(attempts[i]) <=> ~HasError(attempts[i])
    /\ \A i \in 1..Len(events) :
          HasValue(events[i].attempt) <=> ~HasError(events[i].attempt)

\* C32: in every step of a run the attempt history only grows at its end,
\* its attempt numbers start at 1 and never decrease, and the record appended
\* for the k-th invocation of the operation has attempt number k.
C32_HistoryAppendOnly ==
    [][/\ Len(attempts') >= Len(attempts)
       /\ SubSeq(attempts', 1, Len(attempts)) = attempts
       /\ Len(attempts') >= 1 => attempts'[1].attempt = 1
       /\ \A i \in 1..(Len(attempts') - 1) :
             attempts'[i].attempt <= attempts'[i + 1].attempt
       /\ (pc = "invoking" /\ Len(history') = Len(history) + 1)
          => /\ Len(attempts') > Len(attempts)
             /\ attempts'[Len(attempts) + 1].attempt = calls]_vars

\* C33: when the cancellation signal or the overall timeout trips during a
\* preflight rate-limit wait, the wait ends in that step (its timer is
\* cleared), retry() rejects with RetryCancelledError, and the operation is
\* not invoked again in the run.
C33_CancelDuringRateLimitWait ==
    [][/\ (pc = "rlwait" /\ ~CombinedAborted /\ CombinedAborted')
          => /\ pc' = "done"
             /\ sleepTimer' = Null
             /\ outcome' = Threw(RetryCancelledError)
             /\ calls' = calls
       /\ (pc = "done" /\ endReason = "cancel-rlwait")
          => calls' = calls /\ pc' = "done" /\ outcome' = outcome]_vars

C33_Witness ==
    /\ pc = "done" /\ endReason = "cancel-rlwait"
    /\ timeoutAborted /\ ~signalAborted
    /\ outcome = Threw(RetryCancelledError)
    /\ calls = 0 /\ sleepTimer = Null
    /\ cfg.maxAttempts = 2

\* A number that every step of the run lowers: the loop iterations left,
\* then the position within the iteration, then the timers still to fire.
Variant ==
    IF pc \in {"done", "rejected"} THEN 0
    ELSE 30 * (cfg.maxAttempts + 2 - attempt)
         + 10 * (CASE pc = "loop" -> 2
                   [] pc = "invoking" -> 1
                   [] OTHER -> 0)
         + 5 * (IF timeoutTimer # Null THEN 1 ELSE 0)
         + Cardinality({t \in TimePoints : t > now})

\* C34: every run of retry() terminates: provided each invocation
\* eventually settles and each timer eventually fires, the run eventually
\* returns or throws.  A run that has not settled always has a step to take
\* (the invocation settling, a timer firing, or a step of the loop), and
\* every step other than the caller's abort lowers Variant, a natural
\* number; so no run goes on for ever.
C34_RunTerminates ==
    /\ [](pc \notin {"done", "rejected"}
          => Variant \in Nat /\ ENABLED <<Progress>>_vars)
    /\ [][signalAborted' = signalAborted => Variant' < Variant]_vars

C34_Witness ==
    /\ pc = "done" /\ endReason = "fallthrough"
    /\ waits >= 1 /\ calls = cfg.maxAttempts - 1
    /\ outcome.status = "threw"

\* C35: performPreChecks consults the signal, then the breaker, then the
\* tracker and stops at the first that applies.  With the signal already
\* tripped the breaker is left as it was (an open breaker whose timeout has
\* elapsed stays open, no onStateChange call) and the record carries the
\* cancellation error; with the breaker refusing, the record carries the
\* breaker's error and no wait is returned, whatever the tracker's state.
C35_PreflightOrder ==
    probe.name = "performPreChecks"
    => LET r == probe.ret
       IN  /\ probe.aborted
              => /\ r.breaker = probe.breaker
                 /\ ~r.shouldProceed /\ r.hasRecord
                 /\ r.attemptRecord.error = RetryCancelledError
                 /\ r.delay = Undefined
           /\ (~probe.aborted /\ Refusing(probe.breaker, probe.now))
              => /\ ~r.shouldProceed /\ r.hasRecord
                 /\ r.attemptRecord.error = CircuitError("open")
                 /\ r.delay = Undefined
                 /\ r.breaker.state = "open"

C35_Witness ==
    /\ probe.name = "performPreChecks" /\ probe.aborted
    /\ probe.breaker.present /\ probe.breaker.state = "open"
    /\ probe.now - probe.breaker.lastFailureTime.v >= probe.breaker.timeout
    /\ probe.tracker.present /\ probe.tracker.remaining = 0
    /\ probe.ret.breaker.state = "open"
    /\ probe.ret.breaker.notified = probe.breaker.notified
    /\ probe.ret.attemptRecord.error = RetryCancelledError

\* C36: while the breaker is open, recordSuccess leaves the whole breaker as
\* it was and calls no callback; recordFailure leaves it open, calls no
\* callback and keeps the success counter, but sets the last-failure time to
\* the time of the call, so that canExecute refuses for timeout ms from
\* that failure.
C36_OpenBreakerRecords ==
    [][breaker.state = "open"
       => /\ op'.name = "recordSuccess" => breaker' = breaker
          /\ op'.name = "recordFailure"
             => /\ breaker'.state = "open"
                /\ breaker'.notified = breaker.notified
                /\ breaker'.successCount = breaker.successCount
                /\ breaker'.lastFailureTime = Num(now)
                /\ now >= breaker.lastFailureTime.v
                /\ \A t \in now..(now + breaker.timeout - 1) :
                      ~CanExecute(breaker', t).ok
                /\ CanExecute(breaker', now + breaker.timeout).ok]_vars

C36_Witness ==
    /\ op.name = "recordFailure" /\ op.from = "open"
    /\ breaker.state = "open"
    /\ breaker.failureCount > breaker.failureThreshold
    /\ breaker.lastFailureTime = Num(now)
    /\ now >= StartTime + BreakerTimeout
    /\ Len(breaker.notified) = op.seen

\* the step in which an invocation fails after the signal or the overall
\* timeout tripped while it was in flight
FailsAfterTrip ==
    /\ pc = "invoking" /\ CombinedAborted
    /\ Len(history') = Len(history) + 1
    /\ history'[Len(history')].result = "threw"
    /\ history'[Len(history')].domain # Permanent

EndsExhausted ==
    /\ pc' = "done"
    /\ outcome'.status = "threw" /\ outcome'.error = RetryExhaustedError
    /\ events'[Len(events')].type = "failure"
    /\ \A i \in (Len(events) + 1)..Len(events') :
          events'[i].type # "cancelled"

EndsCancelled ==
    /\ pc' = "done"
    /\ outcome' = Threw(RetryCancelledError)
    /\ events'[Len(events')].type = "cancelled"

C38_SleepSettlesOnce ==
    /\ [](probe.name = "sleep"
          => /\ probe.resolveCalls + probe.rejectCalls <= 1
             /\ probe.settled = "pending"
                <=> probe.resolveCalls + probe.rejectCalls = 0
             /\ probe.settled = "pending"
                => /\ probe.dueAt # Null /\ probe.first = "none"
                   /\ ~(probe.hasSignal /\ signalAborted)
             /\ probe.settled = "resolved"
                <=> (probe.first = "timer" /\ probe.resolveCalls = 1)
             /\ probe.settled = "rejected"
                <=> (probe.first \in {"abort", "aborted-before"}
                     /\ probe.rejectCalls = 1)
             /\ probe.settled = "rejected"
                => probe.dueAt = Null /\ probe.hasSignal /\ signalAborted
             /\ (probe.hasSignal /\ signalAborted)
                => probe.settled # "pending")
    /\ [][(probe.name = "sleep" /\ probe.settled # "pending")
          => probe'.settled = probe.settled]_vars

\* the timer fired first and the signal aborted afterwards
C38_Witness ==
    /\ probe.name = "sleep" /\ probe.hasSignal
    /\ probe.settled = "resolved" /\ probe.first = "timer"
    /\ signalAborted
    /\ probe.resolveCalls = 1 /\ probe.rejectCalls = 0

\* C39: in every state of a CircuitBreaker built with successThreshold >= 1
\* the success counter is 0 unless the breaker is half-open, and between
\* two operations it is strictly below successThreshold.
C39_SuccessCountBounded ==
    /\ breaker.successThreshold >= 1
    /\ breaker.state # "half-open" => breaker.successCount = 0
    /\ breaker.successCount >= 0
    /\ breaker.successCount < breaker.successThreshold

C39_Witness ==
    /\ op.name = "recordSuccess" /\ op.from = "half-open"
    /\ breaker.state = "half-open"
    /\ breaker.successCount = 1 /\ breaker.successThreshold = 2

====
